---------------------------- MODULE Spec2Model ----------------------------
(***************************************************************************)
(* rtve-dl: the batch-translation scheduler (src/rtve_dl/codex_batch.py)   *)
(* and the per-episode pipeline (_process_one of                           *)
(* src/rtve_dl/workflows/download.py).                                     *)
(*                                                                         *)
(* translate_es() drives an external text-generating process over a list   *)
(* of cues, either in fixed-size chunks (_translate_es_chunked) or as one  *)
(* request (_translate_no_chunk).  The model follows one working tree (the *)
(* files under one base path) through a bounded number of translate calls: *)
(* chunking, resume from chunk output files, the escalation loop of        *)
(* _run_codex_chunks, response verification by correlation id and echo,    *)
(* and gap-filling rounds over the ids that are still missing.             *)
(*                                                                         *)
(* _process_one takes one episode from the precheck of its cached files    *)
(* through the Resolver, the video download, the subtitles (the provider's *)
(* or a transcription), the consistency guard and the translations to the  *)
(* Muxer.  The model follows the episode's files through a bounded number  *)
(* of runs, one of which may be killed in the middle of a write.           *)
(***************************************************************************)
EXTENDS Integers, Sequences, FiniteSets, TLC

VARIABLES
    env,      \* what this behaviour draws its inputs from (fixed at Init)
    fs,       \* the working tree: path -> file
    pc,       \* where the translate call stands
    call,     \* the arguments of the current translate_es call
    stage,    \* the pass being run: the main pass or a gap-filling round
    loop,     \* the locals of _run_codex_chunks
    merged,   \* `merged` of _translate_es_chunked / `parsed` of _translate_no_chunk
    result,   \* how the call ended
    obs,      \* history of the current call, read only by the properties
    ep,       \* one episode of download_selector: where _process_one stands
    disk,     \* the episode's cache and output files: path -> file
    season,   \* one run of download_selector over the assets of a selector
    calc      \* a pure function of the program applied to an input

vars == <<env, fs, pc, call, stage, loop, merged, result, obs, ep, disk, season, calc>>

-----------------------------------------------------------------------------
(* Bounds of the model *)

\* Cues of a call in the enumerated environments are the ids 1..n, n <= MaxCues.
MaxCues == 3
\* translate_es calls made one after the other on the same working tree.
MaxCalls == 2
\* A chunk of at most SmallChunk cues gets every combination of row kinds as
\* its response; a larger one is answered in request order (InOrderRows).
SmallChunk == 3
\* The scenario of 523 cues at chunk size 400.
ScenarioCues == 523
ScenarioChunk == 400
\* Cues the backend leaves out of a large chunk's response.
ScenarioDrop == 60

\* Program constants.
GapCap == 50
GapSecond == 10
GapLast == 1
BackoffWorkers == 2
NOCHUNK_CACHE_FORMAT == 2

-----------------------------------------------------------------------------
(* Small helpers *)

Min(a, b) == IF a <= b THEN a ELSE b
Max(a, b) == IF a >= b THEN a ELSE b

EmptyMap == <<>>

\* dict.update: the entries of `new` replace those of `old`.
Update(old, new) == new @@ old

Keys(m) == DOMAIN m

Restrict(m, S) == [k \in (DOMAIN m) \cap S |-> m[k]]

SeqToSet(s) == {s[i] : i \in 1..Len(s)}

-----------------------------------------------------------------------------
(* Cues, echoes and correlation ids *)

\* The source text of cue i.  A text is <<first 16 characters after
\* normalisation, the rest>>: cues 1 and 3 open with the same 16 characters.
CueText(i) == <<IF i % 2 = 1 THEN "hola" ELSE "adios", i>>

cue_list(n) == [i \in 1..n |-> <<i, CueText(i)>>]

\* _make_echo: the normalised text cut to its first 16 characters.
_make_echo(text) == text[1]

\* _model_id: a digest of "cue_id|text", here the pair itself in a wrapper.
_model_id(cue_id, text) == [h |-> <<cue_id, text>>]

\* _build_expected_map: correlation id -> (cue id, echo); a later cue with the
\* same correlation id replaces an earlier one.
_build_expected_map(cues) ==
    LET mids == {_model_id(cues[i][1], cues[i][2]) : i \in 1..Len(cues)}
        at(mid) == {i \in 1..Len(cues) : _model_id(cues[i][1], cues[i][2]) = mid}
        last(mid) == CHOOSE i \in at(mid) : \A j \in at(mid) : j <= i
    IN  [mid \in mids |-> <<cues[last(mid)][1], _make_echo(cues[last(mid)][2])>>]

-----------------------------------------------------------------------------
(* Response rows and their verification *)

\* A response row as split on tabs: the first column, the second column, the
\* last column and the number of columns.
Row(mid, text, echo, cols) == [mid |-> mid, text |-> text, echo |-> echo, cols |-> cols]

\* The test of _parse_tsv_with_echo on one row, with the echo comparison left out.
RowAcceptedNoEcho(row, expected) ==
    /\ row.cols >= 3
    /\ row.mid \in DOMAIN expected

\* The test of _parse_tsv_with_echo on one row: at least three columns, a known
\* correlation id, and the echo precomputed for it in the last column.
RowAccepted(row, expected) ==
    /\ row.cols >= 3
    /\ row.mid \in DOMAIN expected
    /\ row.echo = expected[row.mid][2]

\* _parse_tsv_with_echo: correlation id -> text of the last accepted row for it.
_parse_tsv_with_echo(rows, expected) ==
    LET ok == {i \in 1..Len(rows) : RowAccepted(rows[i], expected)}
        mids == {rows[i].mid : i \in ok}
        at(mid) == {i \in ok : rows[i].mid = mid}
        last(mid) == CHOOSE i \in at(mid) : \A j \in at(mid) : j <= i
    IN  [mid \in mids |-> rows[last(mid)].text]

\* The remap of run_codex_chunk: correlation ids back to cue ids.
Remap(parsed, expected) ==
    LET ids == {expected[mid][1] : mid \in DOMAIN parsed}
        src(id) == CHOOSE mid \in DOMAIN parsed : expected[mid][1] = id
    IN  [id \in ids |-> parsed[src(id)]]

-----------------------------------------------------------------------------
(* Paths and files *)

BasePath == "tmp/S01E01"

\* The {idx:04d} of the chunk file names.
Pad4(idx) ==
    IF idx < 10 THEN "000" \o ToString(idx)
    ELSE IF idx < 100 THEN "00" \o ToString(idx)
    ELSE IF idx < 1000 THEN "0" \o ToString(idx)
    ELSE ToString(idx)

\* chunk_cues' stem with the chunk size left out of it.
StemNoSize(base_path, chunk_size) == base_path

\* chunk_cues: stem = str(base_path) + f".c{chunk_cues}"
Stem(base_path, chunk_size) == base_path \o ".c" \o ToString(chunk_size)

\* chunk_cues: out_path = stem + f".{io_tag}.out.{idx:04d}.jsonl"
OutJsonl(base_path, chunk_size, io_tag, idx) ==
    Stem(base_path, chunk_size) \o "." \o io_tag \o ".out." \o Pad4(idx) \o ".jsonl"

\* _translate_es_chunked: retry_base = str(base_path) + f".retry{attempt}"
RetryBase(base_path, attempt) == base_path \o ".retry" \o ToString(attempt)

\* _translate_no_chunk: cache_file and retry_base
NochunkCache(base_path, io_tag) == base_path \o "." \o io_tag \o ".nochunk.out.jsonl"
NochunkRetryBase(base_path) == base_path \o ".nochunk_retry"
NochunkRetryTag(io_tag) == io_tag \o "_retry"

\* A file: the id -> text rows a JSON-lines reader finds in it (m), the
\* "_meta" format of its first line (fmt, 0 when the first line is no meta
\* line), whether it holds bytes that are no complete row (junk), and, for
\* the properties only, the chunk size and tag of the call that wrote it (by).
File(m, fmt, junk, by) == [m |-> m, fmt |-> fmt, junk |-> junk, by |-> by]

Exists(path) == path \in DOMAIN fs

\* st_size > 0
NonEmpty(f) == f.fmt # 0 \/ f.junk \/ DOMAIN f.m # {}

\* _parse_jsonl_map: the rows with a non-empty id and a string text; the meta
\* line has no id and incomplete lines do not parse.
_parse_jsonl_map(f) == f.m

\* The compatibility test with every file refused.
CompatibleNever(f) == FALSE

\* _is_nochunk_cache_compatible: the first line is a meta line of format 2.
_is_nochunk_cache_compatible(f) == f.fmt = NOCHUNK_CACHE_FORMAT

WriteFile(files, path, f) == (path :> f) @@ files

RemoveFile(files, path) == [p \in (DOMAIN files) \ {path} |-> files[p]]

-----------------------------------------------------------------------------
(* chunk_cues *)

\* The number of chunks with a partial last chunk not counted.
NumChunksWhole(n, chunk_size) == n \div chunk_size

\* len(range(0, len(cues), chunk_cues))
NumChunks(n, chunk_size) == (n + chunk_size - 1) \div chunk_size

\* chunk_cues: the cues in order, chunk_size at a time, numbered from 1.  A
\* chunk is its number, its cues (what in_jsonl holds) and its out_jsonl path.
chunk_cues(cues, chunk_size, base_path, io_tag) ==
    [k \in 1..NumChunks(Len(cues), chunk_size) |->
        [idx |-> k,
         part |-> SubSeq(cues, (k - 1) * chunk_size + 1, Min(k * chunk_size, Len(cues))),
         out_jsonl |-> OutJsonl(base_path, chunk_size, io_tag, k)]]

PartIds(ch) == {ch.part[i][1] : i \in 1..Len(ch.part)}

-----------------------------------------------------------------------------
(* The backend: what one subprocess run can answer *)

RowKinds == {"good", "none", "badecho", "noecho"}

OtherEcho(echo) == IF echo = "hola" THEN "adios" ELSE "hola"

\* The rows of a response to `part`: one row per cue according to its kind,
\* then, with `stray`, a row carrying the correlation id and echo of a cue
\* that is not in the request.
ResponseRows(part, kinds, v, stray) ==
    LET n == Len(part)
        mid(i) == _model_id(part[i][1], part[i][2])
        echo(i) == _make_echo(part[i][2])
        row(i) == IF kinds[i] = "good" THEN Row(mid(i), v, echo(i), 3)
                  ELSE IF kinds[i] = "badecho" THEN Row(mid(i), v, OtherEcho(echo(i)), 3)
                  ELSE Row(mid(i), v, v, 2)
        all == [i \in 1..n |-> row(i)]
        present == SelectSeq([i \in 1..n |-> i], LAMBDA i : kinds[i] # "none")
        rows == [j \in 1..Len(present) |-> all[present[j]]]
        other == IF n = 0 THEN 1 ELSE part[n][1] + 1
    IN  IF stray
        THEN Append(rows, Row(_model_id(other, CueText(other)), v,
                              _make_echo(CueText(other)), 3))
        ELSE rows

\* Answers to a request of more than SmallChunk cues: well-formed rows in
\* request order for all cues but the last d.
InOrderRows(part, d, v) ==
    [j \in 1..(Len(part) - d) |->
        Row(_model_id(part[j][1], part[j][2]), v, _make_echo(part[j][2]), 3)]

Drops(n) == {0} \cup (IF env.drop < n THEN {env.drop} ELSE {})

\* The text the backend gives as a translation: it may differ from one call
\* to the next.
Translation == "t" \o ToString(call.no)

\* A subprocess result: exit code, whether the output carries an
\* authentication or a rate-limit signature, and the rows it printed.
Exit0(rows) == [rc |-> 0, auth |-> FALSE, rate |-> FALSE, rows |-> rows]
ExitErr(auth, rate) == [rc |-> 1, auth |-> auth, rate |-> rate, rows |-> <<>>]

Results(part) ==
    (IF Len(part) <= SmallChunk
     THEN {Exit0(ResponseRows(part, k, v, s)) :
              k \in [1..Len(part) -> env.kinds], v \in {Translation}, s \in env.stray}
     ELSE {Exit0(InOrderRows(part, d, Translation)) : d \in Drops(Len(part))})
    \cup {ExitErr(a, r) : a \in env.auth, r \in env.rate}

\* The error of a non-zero exit with the rate-limit signature looked for first.
ErrorKindRateFirst(res) ==
    IF res.rate THEN "rate limited"
    ELSE IF res.auth THEN "auth"
    ELSE "failed"

\* run_codex_chunk, lines 429-454: the error raised on a non-zero exit.
ErrorKind(res) ==
    IF res.auth THEN "auth"
    ELSE IF res.rate THEN "rate limited"
    ELSE "failed"

-----------------------------------------------------------------------------
(* Environments: the inputs one behaviour draws from *)

PrimaryModel == "primary"

\* fallback_model: None, the primary model again, or another model.
FallbackModels == {"", "primary", "mini"}

\* One call on an empty tree, with every response to a small chunk.
SingleEnvs ==
    [cls : {"single"}, mode : {"chunked"}, resume : {TRUE},
     fallback_model : FallbackModels, max_workers : {1, 4},
     calls : {1}, ns : {1..MaxCues}, sizes : {{0, 2, 60}}, tags : {{"ru"}},
     kinds : {RowKinds}, stray : {BOOLEAN},
     auth : {BOOLEAN}, rate : {BOOLEAN}, kill : {FALSE}, legacy : {FALSE}, drop : {0}]
    \cup
    [cls : {"single"}, mode : {"nochunk"}, resume : {TRUE},
     fallback_model : {"mini"}, max_workers : {4},
     calls : {1}, ns : {1..MaxCues}, sizes : {{2, 60}}, tags : {{"ru"}},
     kinds : {RowKinds}, stray : {BOOLEAN},
     auth : {BOOLEAN}, rate : {BOOLEAN}, kill : {FALSE}, legacy : {FALSE}, drop : {0}]

\* Several calls on the same tree, with chunk size, tag and cue count changing
\* between them and the process possibly killed while it writes.
MultiEnvs ==
    [cls : {"multi"}, mode : {"chunked"}, resume : BOOLEAN,
     fallback_model : {""}, max_workers : {1},
     calls : {MaxCalls}, ns : {1..MaxCues}, sizes : {{1, 2}},
     tags : {{"ru", "en"}},
     kinds : {{"good", "none"}}, stray : {{FALSE}},
     auth : {{FALSE}}, rate : {{FALSE}}, kill : {TRUE}, legacy : {FALSE}, drop : {0}]
    \cup
    [cls : {"multi"}, mode : {"nochunk"}, resume : {TRUE},
     fallback_model : {""}, max_workers : {1},
     calls : {MaxCalls}, ns : {1..MaxCues}, sizes : {{2}},
     tags : {{"ru", "en"}},
     kinds : {{"good", "none"}}, stray : {{FALSE}},
     auth : {{FALSE}}, rate : {{FALSE}}, kill : {TRUE}, legacy : BOOLEAN, drop : {0}]

\* 523 cues at chunk size 400: requests too large for every combination of
\* row kinds, answered in full, without their last ScenarioDrop cues, or by a
\* failing process.
ScenarioEnvs ==
    [cls : {"scenario"}, mode : {"chunked"}, resume : {TRUE},
     fallback_model : {"", "mini"}, max_workers : {1, 4},
     calls : {1}, ns : {{ScenarioCues}}, sizes : {{ScenarioChunk}}, tags : {{"ru"}},
     kinds : {{"good", "none"}}, stray : {{FALSE}},
     auth : {{FALSE}}, rate : {{FALSE}}, kill : {FALSE}, legacy : {FALSE}, drop : {ScenarioDrop}]
    \cup
    [cls : {"scenario"}, mode : {"chunked"}, resume : {TRUE},
     fallback_model : {"", "mini"}, max_workers : {1, 4},
     calls : {1}, ns : {{ScenarioCues}}, sizes : {{ScenarioChunk}}, tags : {{"ru"}},
     kinds : {{"good", "none"}}, stray : {{FALSE}},
     auth : {{FALSE}}, rate : {BOOLEAN}, kill : {FALSE}, legacy : {FALSE}, drop : {0}]
    \cup
    [cls : {"scenario"}, mode : {"nochunk"}, resume : {TRUE},
     fallback_model : {"mini"}, max_workers : {4},
     calls : {1}, ns : {{ScenarioCues}}, sizes : {{ScenarioChunk}}, tags : {{"ru"}},
     kinds : {{"good", "none"}}, stray : {{FALSE}},
     auth : {{FALSE}}, rate : {BOOLEAN}, kill : {FALSE}, legacy : {FALSE}, drop : {ScenarioDrop}]

Envs == SingleEnvs \cup MultiEnvs \cup ScenarioEnvs

NoCall == [n |-> 0, chunk_size |-> 0, io_tag |-> "", no |-> 0]
NoStage == [kind |-> "none", round |-> 0, sz |-> 0, chunks |-> <<>>, sizes |-> <<>>]
NoLoop == [pending |-> <<>>, todo |-> {}, failed |-> <<>>, workers |-> 0,
           fallback_done |-> FALSE, fallback_model |-> "", waves |-> 0]
NoResult == [status |-> "none", err |-> "", map |-> EmptyMap]
NoPrev == [n |-> 0, chunk_size |-> 0, io_tag |-> "", status |-> "none", map |-> EmptyMap]
\* No episode is being processed.
NoEpisode == [pc |-> "none", status |-> "none"]

\* No season run and no function application in a behaviour that follows
\* something else.
NoSeason == [main |-> "none"]
NoCalc == [fn |-> "none"]

NoObs == [calls |-> 0, ninv |-> 0, sent |-> {}, cnt |-> <<>>, w0 |-> 0,
          gaps |-> <<>>, resumed |-> {}, rejected |-> {}, hit |-> "none",
          start |-> [have |-> {}, all_exist |-> FALSE, compatible |-> FALSE],
          prev |-> NoPrev]

\* A single-request cache file of an earlier format: rows and no meta line.
LegacyCache(n) == File([i \in 1..n |-> "t0"], 0, FALSE, [chunk_size |-> 0, io_tag |-> "ru"])

InitFs ==
    IF env.legacy /\ env.mode = "nochunk"
    THEN (NochunkCache(BasePath, "ru") :> LegacyCache(MaxCues))
    ELSE <<>>

Init ==
    /\ env \in Envs
    /\ fs = InitFs
    /\ pc = "idle"
    /\ call = NoCall
    /\ stage = NoStage
    /\ loop = NoLoop
    /\ merged = EmptyMap
    /\ result = NoResult
    /\ obs = NoObs
    /\ ep = NoEpisode
    /\ disk = <<>>
    /\ season = NoSeason
    /\ calc = NoCalc

-----------------------------------------------------------------------------
(* _run_codex_chunks: the escalation loop *)

\* The locals at entry: workers = max(1, max_workers), pending = list(chunks).
LoopStart(pending, max_workers, fallback_model) ==
    [pending |-> pending, todo |-> SeqToSet(pending), failed |-> <<>>,
     workers |-> Max(1, max_workers), fallback_done |-> FALSE,
     fallback_model |-> fallback_model,
     waves |-> IF pending = <<>> THEN 0 ELSE 1]

\* The model a wave runs with: run_model, lines 534-538.
RunModel(l) == IF l.fallback_done THEN l.fallback_model ELSE PrimaryModel

\* The chunks of the wave that have not completed yet, in submission order.
\* One after the other when workers == 1 (or one chunk is pending); in a pool
\* at most `workers` are running, so a chunk completes only if fewer than
\* `workers` uncompleted chunks were submitted before it.
CanComplete(l, ci) ==
    LET pos(c) == CHOOSE i \in 1..Len(l.pending) : l.pending[i] = c
        before == {c \in l.todo : pos(c) < pos(ci)}
    IN  /\ ci \in l.todo
        /\ Cardinality(before) < l.workers

FailedChunks(l) == [i \in 1..Len(l.failed) |-> l.failed[i].ci]

\* any("rate limited" in str(err).lower() for _, err in failed)
RateLimited(l) == \E i \in 1..Len(l.failed) : l.failed[i].err = "rate limited"

NextWave(l, pending) ==
    [l EXCEPT !.pending = pending, !.todo = SeqToSet(pending), !.failed = <<>>,
              !.waves = l.waves + 1]

\* The decision after a completed wave with the fallback wave run by two
\* workers.
AfterWaveFewer(l) ==
    IF l.failed = <<>>
    THEN [act |-> "return", loop |-> l]
    ELSE IF ~l.fallback_done /\ l.fallback_model # "" /\ l.fallback_model # PrimaryModel
    THEN [act |-> "fallback",
          loop |-> [NextWave(l, FailedChunks(l)) EXCEPT !.fallback_done = TRUE,
                                                         !.workers = BackoffWorkers]]
    ELSE IF RateLimited(l) /\ l.workers > BackoffWorkers
    THEN [act |-> "backoff",
          loop |-> [NextWave(l, FailedChunks(l)) EXCEPT !.workers = BackoffWorkers]]
    ELSE [act |-> "raise", loop |-> l]

\* The decision after a completed wave with the rate-limit retry not tied to
\* the number of workers.
AfterWaveAgain(l) ==
    IF l.failed = <<>>
    THEN [act |-> "return", loop |-> l]
    ELSE IF ~l.fallback_done /\ l.fallback_model # "" /\ l.fallback_model # PrimaryModel
    THEN [act |-> "fallback",
          loop |-> [NextWave(l, FailedChunks(l)) EXCEPT !.fallback_done = TRUE]]
    ELSE IF RateLimited(l)
    THEN [act |-> "backoff",
          loop |-> [NextWave(l, FailedChunks(l)) EXCEPT !.workers = BackoffWorkers]]
    ELSE [act |-> "raise", loop |-> l]

\* What follows a completed wave, lines 576-598: return, a wave of the failed
\* chunks on the fallback model, a wave of the failed chunks with two workers,
\* or the first captured error.
AfterWave(l) ==
    IF l.failed = <<>>
    THEN [act |-> "return", loop |-> l]
    ELSE IF ~l.fallback_done /\ l.fallback_model # "" /\ l.fallback_model # PrimaryModel
    THEN [act |-> "fallback",
          loop |-> [NextWave(l, FailedChunks(l)) EXCEPT !.fallback_done = TRUE]]
    ELSE IF RateLimited(l) /\ l.workers > BackoffWorkers
    THEN [act |-> "backoff",
          loop |-> [NextWave(l, FailedChunks(l)) EXCEPT !.workers = BackoffWorkers]]
    ELSE [act |-> "raise", loop |-> l]

Raised(err) == [status |-> "raised", err |-> err, map |-> EmptyMap]
Returned(m) == [status |-> "ok", err |-> "", map |-> m]
Killed == [status |-> "killed", err |-> "", map |-> EmptyMap]

WrittenBy == [chunk_size |-> call.chunk_size, io_tag |-> call.io_tag]

\* What a write of `m` leaves when the process is killed in it: open("w") has
\* truncated the file, and the rows of the first k ids may have reached the
\* disk, the last of them possibly cut.
TornWrites(m, fmt) ==
    {File(EmptyMap, 0, FALSE, WrittenBy)}
    \cup {File(Restrict(m, 1..k), fmt, TRUE, WrittenBy) :
            k \in {j \in 0..MaxCues : Keys(m) \ (1..j) # {}}}

\* run_codex_chunk's verification of the rows of a zero exit, lines 456-497.
VerifiedRows(part, rows) ==
    LET expected == _build_expected_map(part)
    IN  Remap(_parse_tsv_with_echo(rows, expected), expected)

\* The position in `part`, whose cue ids increase, of the cue with id `id`.
RECURSIVE PosOf(_, _, _, _)
PosOf(part, id, lo, hi) ==
    LET mid == (lo + hi) \div 2
    IN  IF part[mid][1] = id THEN mid
        ELSE IF part[mid][1] < id THEN PosOf(part, id, mid + 1, hi)
        ELSE PosOf(part, id, lo, mid - 1)

\* The same for rows that answer the cues of `part` in request order, row j
\* for cue j: what VerifiedRows gives on them when no two cues of the request
\* share a correlation id, computed without a search per row.
VerifiedInOrder(part, rows) ==
    LET ok == {j \in 1..Len(rows) :
                  /\ rows[j].cols >= 3
                  /\ rows[j].mid = _model_id(part[j][1], part[j][2])
                  /\ rows[j].echo = _make_echo(part[j][2])}
    IN  [id \in {part[j][1] : j \in ok} |-> rows[PosOf(part, id, 1, Len(part))].text]

Verified(part, rows) ==
    IF Len(part) <= SmallChunk THEN VerifiedRows(part, rows) ELSE VerifiedInOrder(part, rows)

\* The cues of `part` answered by a row that carries their correlation id but
\* not their echo, and by no row that carries both.
RejectedIds(part, rows) ==
    LET mid(i) == _model_id(part[i][1], part[i][2])
        echo(i) == _make_echo(part[i][2])
        named(i) == {j \in 1..Len(rows) : rows[j].mid = mid(i)}
    IN  IF Len(part) > SmallChunk THEN {}
        ELSE {part[i][1] : i \in {i \in 1..Len(part) :
                /\ named(i) # {}
                /\ \A j \in named(i) : rows[j].cols < 3 \/ rows[j].echo # echo(i)}}

Count(ci, l, ok) ==
    LET old == obs.cnt[ci]
    IN  [p |-> old.p + (IF l.fallback_done THEN 0 ELSE 1),
         f |-> old.f + (IF l.fallback_done THEN 1 ELSE 0),
         ok |-> IF ok THEN l.waves ELSE 0]

\* One run of run_codex_chunk for chunk ci of the current wave.
run_codex_chunk(ci, res) ==
    LET ch == stage.chunks[ci]
        remapped == Verified(ch.part, res.rows)
        good == res.rc = 0 /\ remapped # EmptyMap
        err == IF res.rc # 0 THEN ErrorKind(res) ELSE "unparseable"
        \* lines 410-412: a failed run removes a 0-byte out_jsonl
        cleaned == IF res.rc # 0 /\ Exists(ch.out_jsonl) /\ ~NonEmpty(fs[ch.out_jsonl])
                   THEN RemoveFile(fs, ch.out_jsonl) ELSE fs
    IN  /\ fs' = IF good
                 THEN WriteFile(fs, ch.out_jsonl, File(remapped, 0, FALSE, WrittenBy))
                 ELSE cleaned
        /\ loop' = [loop EXCEPT !.todo = loop.todo \ {ci},
                                !.failed = IF good THEN loop.failed
                                           ELSE Append(loop.failed,
                                                       [ci |-> ci, err |-> err,
                                                        auth |-> res.rc # 0 /\ res.auth])]
        /\ obs' = [obs EXCEPT !.ninv = obs.ninv + 1,
                              !.sent = obs.sent \cup PartIds(ch),
                              !.cnt = [obs.cnt EXCEPT ![ci] = Count(ci, loop, good)],
                              !.rejected = IF stage.kind = "main"
                                           THEN (obs.rejected \ PartIds(ch))
                                                \cup (IF res.rc = 0
                                                      THEN RejectedIds(ch.part, res.rows)
                                                      ELSE {})
                                           ELSE obs.rejected]
        /\ UNCHANGED <<env, pc, call, stage, merged, result>>

RunChunk ==
    /\ UNCHANGED <<ep, disk, season, calc>>
    /\ pc = "loop"
    /\ \E ci \in loop.todo :
          /\ CanComplete(loop, ci)
          /\ \E res \in Results(stage.chunks[ci].part) : run_codex_chunk(ci, res)

\* The process is killed while run_codex_chunk writes out_jsonl.
KillInChunkWrite ==
    /\ UNCHANGED <<ep, disk, season, calc>>
    /\ pc = "loop"
    /\ env.kill
    /\ \E ci \in loop.todo :
          /\ CanComplete(loop, ci)
          /\ \E res \in Results(stage.chunks[ci].part) :
                LET ch == stage.chunks[ci]
                    remapped == Verified(ch.part, res.rows)
                IN  /\ res.rc = 0 /\ remapped # EmptyMap
                    /\ \E f \in TornWrites(remapped, 0) :
                          fs' = WriteFile(fs, ch.out_jsonl, f)
                    /\ obs' = [obs EXCEPT !.ninv = obs.ninv + 1,
                                          !.sent = obs.sent \cup PartIds(ch)]
    /\ pc' = "done"
    /\ result' = Killed
    /\ UNCHANGED <<env, call, stage, loop, merged>>

\* The wave is complete: lines 576-598.
WaveEnd ==
    /\ UNCHANGED <<ep, disk, season, calc>>
    /\ pc = "loop"
    /\ loop.todo = {}
    /\ LET d == AfterWave(loop)
       IN  /\ loop' = d.loop
           /\ pc' = IF d.act = "return" THEN "merge"
                    ELSE IF d.act = "raise" THEN "done" ELSE "loop"
           /\ result' = IF d.act = "raise" THEN Raised(loop.failed[1].err) ELSE result
    /\ UNCHANGED <<env, fs, call, stage, merged, obs>>

-----------------------------------------------------------------------------
(* _translate_es_chunked and _translate_no_chunk *)

Want == 1..call.n

\* line 643 with nothing ever counted as missing.
MissingNone(m) == {}

\* missing = sorted(list(want - set(merged.keys())))
Missing(m) == Want \ Keys(m)

\* The chunk sizes of the rounds taken from the chunk size in both modes.
GapSizesBySize(mode, chunk_size, nmissing) ==
    <<Min(GapCap, chunk_size), GapSecond, GapLast>>

\* The chunk sizes of the gap-filling rounds: line 647 in chunked mode, line
\* 879 in single-request mode (over the ids missing after the main request).
GapSizes(mode, chunk_size, nmissing) ==
    IF mode = "chunked"
    THEN <<Min(GapCap, chunk_size), GapSecond, GapLast>>
    ELSE <<Min(GapCap, nmissing), GapSecond, GapLast>>

\* merged.update(_parse_jsonl_map(ch.out_jsonl)) for each chunk in order.
RECURSIVE MergeOuts(_, _, _)
MergeOuts(chunks, k, acc) ==
    IF k > Len(chunks) THEN acc
    ELSE MergeOuts(chunks, k + 1,
                   IF Exists(chunks[k].out_jsonl)
                   THEN Update(acc, _parse_jsonl_map(fs[chunks[k].out_jsonl]))
                   ELSE acc)

\* The resume test with nothing ever taken as done.
ResumableNever(ch) == FALSE

\* The resume test of line 622.
Resumable(ch) ==
    env.resume /\ Exists(ch.out_jsonl) /\ NonEmpty(fs[ch.out_jsonl])

AllIndices(chunks) == [k \in 1..Len(chunks) |-> k]

ZeroCnt(chunks) == [k \in 1..Len(chunks) |-> [p |-> 0, f |-> 0, ok |-> 0]]

\* What the files of the call hold when it starts: the ids found in the chunk
\* output files (lines 637-640) or in the single-request cache file (lines
\* 703-709), whether all of these files exist, and whether the cache file
\* opens with a meta line of the current format.
CacheAtStart(c, chunks) ==
    LET cache_file == NochunkCache(BasePath, c.io_tag)
        files == IF env.mode = "nochunk" THEN {cache_file}
                 ELSE {chunks[k].out_jsonl : k \in 1..Len(chunks)}
    IN  [have |-> UNION {Keys(_parse_jsonl_map(fs[p])) : p \in files \cap DOMAIN fs},
         all_exist |-> files \subseteq DOMAIN fs,
         compatible |-> /\ env.mode = "nochunk"
                        /\ Exists(cache_file)
                        /\ fs[cache_file].fmt = NOCHUNK_CACHE_FORMAT]

NewObs(c, chunks, resumed, hit) ==
    [calls |-> c.no, ninv |-> 0, sent |-> {}, cnt |-> ZeroCnt(chunks),
     w0 |-> Max(1, env.max_workers), gaps |-> <<>>, resumed |-> resumed,
     rejected |-> {}, hit |-> hit, start |-> CacheAtStart(c, chunks),
     prev |-> [n |-> call.n, chunk_size |-> call.chunk_size, io_tag |-> call.io_tag,
               status |-> result.status, map |-> result.map]]

\* _translate_es_chunked up to its first _run_codex_chunks, lines 618-634.
StartChunked(c) ==
    IF c.chunk_size <= 0
    THEN /\ pc' = "done"
         /\ result' = Raised("ValueError")
         /\ stage' = NoStage
         /\ loop' = NoLoop
         /\ obs' = NewObs(c, <<>>, {}, "none")
         /\ merged' = EmptyMap
    ELSE LET chunks == chunk_cues(cue_list(c.n), c.chunk_size, BasePath, c.io_tag)
             pending == SelectSeq(AllIndices(chunks), LAMBDA k : ~Resumable(chunks[k]))
             skipped == {k \in 1..Len(chunks) : Resumable(chunks[k])}
         IN  /\ stage' = [kind |-> "main", round |-> 0, sz |-> c.chunk_size,
                          chunks |-> chunks, sizes |-> <<>>]
             /\ loop' = LoopStart(pending, env.max_workers, env.fallback_model)
             /\ pc' = IF pending = <<>> THEN "merge" ELSE "loop"
             /\ result' = NoResult
             /\ merged' = EmptyMap
             /\ obs' = NewObs(c, chunks,
                              {[path |-> chunks[k].out_jsonl, by |-> fs[chunks[k].out_jsonl].by] :
                                  k \in skipped},
                              IF pending = <<>> THEN "full" ELSE "none")

\* _translate_no_chunk up to the main request, lines 697-723.
StartNoChunk(c) ==
    LET cache_file == NochunkCache(BasePath, c.io_tag)
        want == 1..c.n
        usable == /\ Exists(cache_file) /\ NonEmpty(fs[cache_file])
                  /\ _is_nochunk_cache_compatible(fs[cache_file])
        cached == IF usable THEN _parse_jsonl_map(fs[cache_file]) ELSE EmptyMap
        hit == IF usable /\ want \subseteq Keys(cached) THEN "full"
               ELSE IF usable /\ Keys(cached) \cap want # {} THEN "partial"
               ELSE "none"
    IN  /\ stage' = [kind |-> "main", round |-> 0, sz |-> 0, chunks |-> <<>>, sizes |-> <<>>]
        /\ loop' = NoLoop
        /\ obs' = NewObs(c, <<>>, {}, hit)
        /\ pc' = IF hit = "full" THEN "done" ELSE IF hit = "partial" THEN "merge" ELSE "mainreq"
        /\ result' = IF hit = "full" THEN Returned(Restrict(cached, want)) ELSE NoResult
        /\ merged' = IF hit = "partial" THEN Restrict(cached, want) ELSE EmptyMap

\* A call of translate_es: dispatch by mode, lines 981-1008.
translate_es(n, chunk_size, io_tag) ==
    LET c == [n |-> n, chunk_size |-> chunk_size, io_tag |-> io_tag, no |-> obs.calls + 1]
    IN  /\ pc \in {"idle", "done"}
        /\ obs.calls < env.calls
        /\ call' = c
        /\ IF env.mode = "nochunk" THEN StartNoChunk(c) ELSE StartChunked(c)
        /\ UNCHANGED <<env, fs>>

Translate ==
    /\ UNCHANGED <<ep, disk, season, calc>>
    /\ \E n \in env.ns, chunk_size \in env.sizes, io_tag \in env.tags :
          translate_es(n, chunk_size, io_tag)

\* The main request of _translate_no_chunk, lines 768-851.
main_request(res) ==
    LET cues == cue_list(call.n)
        remapped == Verified(cues, res.rows)
        cache_file == NochunkCache(BasePath, call.io_tag)
    IN  /\ pc = "mainreq"
        /\ obs' = [obs EXCEPT !.ninv = obs.ninv + 1, !.sent = obs.sent \cup Want,
                              !.rejected = IF res.rc = 0 THEN RejectedIds(cues, res.rows) ELSE {}]
        /\ IF res.rc # 0
           THEN /\ pc' = "done" /\ result' = Raised(ErrorKind(res))
                /\ UNCHANGED <<fs, merged>>
           ELSE IF remapped = EmptyMap
           THEN /\ pc' = "done" /\ result' = Raised("unparseable")
                /\ UNCHANGED <<fs, merged>>
           ELSE /\ pc' = "merge" /\ result' = result
                /\ fs' = WriteFile(fs, cache_file,
                                   File(remapped, NOCHUNK_CACHE_FORMAT, FALSE, WrittenBy))
                /\ merged' = remapped
        /\ UNCHANGED <<env, call, stage, loop>>

MainRequest ==
    /\ UNCHANGED <<ep, disk, season, calc>>
    /\ pc = "mainreq"
    /\ \E res \in Results(cue_list(call.n)) : main_request(res)

\* The cues of a gap-filling round: the missing ones, in cue order.
MissingCues(m) == SelectSeq(cue_list(call.n), LAMBDA c : c[1] \in Missing(m))

\* A gap-filling round that passes the caller's worker count and fallback
\* model to _run_codex_chunks in both modes.
StartGapRoundEscalating(round, sizes, m) ==
    LET sz == sizes[round]
        chunks == IF env.mode = "chunked"
                  THEN chunk_cues(MissingCues(m), sz, RetryBase(BasePath, round), call.io_tag)
                  ELSE chunk_cues(MissingCues(m), sz, NochunkRetryBase(BasePath),
                                  NochunkRetryTag(call.io_tag))
    IN  /\ stage' = [kind |-> "gap", round |-> round, sz |-> sz, chunks |-> chunks,
                     sizes |-> sizes]
        /\ loop' = LoopStart(AllIndices(chunks), env.max_workers, env.fallback_model)
        /\ obs' = [obs EXCEPT !.gaps = Append(obs.gaps, [sz |-> sz, ids |-> Missing(m)]),
                              !.rejected = {},
                              !.cnt = ZeroCnt(chunks),
                              !.w0 = Max(1, env.max_workers)]
        /\ pc' = "loop"
        /\ result' = result

\* Start gap-filling round `round` over the ids missing from m.
StartGapRound(round, sizes, m) ==
    LET sz == sizes[round]
        chunks == IF env.mode = "chunked"
                  THEN chunk_cues(MissingCues(m), sz, RetryBase(BasePath, round), call.io_tag)
                  ELSE chunk_cues(MissingCues(m), sz, NochunkRetryBase(BasePath),
                                  NochunkRetryTag(call.io_tag))
    IN  /\ stage' = [kind |-> "gap", round |-> round, sz |-> sz, chunks |-> chunks,
                     sizes |-> sizes]
        /\ loop' = IF env.mode = "chunked"
                   THEN LoopStart(AllIndices(chunks), env.max_workers, env.fallback_model)
                   ELSE LoopStart(AllIndices(chunks), 1, "")
        /\ obs' = [obs EXCEPT !.gaps = Append(obs.gaps, [sz |-> sz, ids |-> Missing(m)]),
                              !.rejected = {},
                              !.cnt = ZeroCnt(chunks),
                              !.w0 = IF env.mode = "chunked" THEN Max(1, env.max_workers) ELSE 1]
        /\ pc' = "loop"
        /\ result' = result

\* What follows a pass whose _run_codex_chunks returned (or was skipped):
\* lines 636-680 of _translate_es_chunked, 853-949 of _translate_no_chunk.
AfterPass ==
    /\ UNCHANGED <<ep, disk, season, calc>>
    /\ pc = "merge"
    /\ LET absent == \E k \in 1..Len(stage.chunks) : ~Exists(stage.chunks[k].out_jsonl)
           m == IF stage.kind = "main" /\ env.mode = "chunked"
                THEN MergeOuts(stage.chunks, 1, EmptyMap)
                ELSE MergeOuts(stage.chunks, 1, merged)
           sizes == IF stage.round = 0
                    THEN GapSizes(env.mode, call.chunk_size, Cardinality(Missing(m)))
                    ELSE stage.sizes
           cache_file == NochunkCache(BasePath, call.io_tag)
           \* line 942: the single-request cache is rewritten after the rounds
           rewritten == IF env.mode = "nochunk" /\ stage.round > 0
                        THEN WriteFile(fs, cache_file,
                                       File(m, NOCHUNK_CACHE_FORMAT, FALSE, WrittenBy))
                        ELSE fs
       IN  IF stage.kind = "main" /\ env.mode = "chunked" /\ absent
           THEN /\ pc' = "done" /\ result' = Raised("missing chunk")
                /\ UNCHANGED <<fs, merged, stage, loop, obs>>
           ELSE /\ merged' = m
                /\ IF Missing(m) = {}
                   THEN /\ pc' = "done" /\ result' = Returned(m)
                        /\ fs' = rewritten
                        /\ obs' = [obs EXCEPT !.rejected = {}]
                        /\ UNCHANGED <<stage, loop>>
                   ELSE IF stage.round < Len(sizes)
                   THEN /\ StartGapRound(stage.round + 1, sizes, m)
                        /\ fs' = fs
                   ELSE /\ pc' = "done" /\ result' = Raised("missing ids")
                        /\ fs' = rewritten
                        /\ obs' = [obs EXCEPT !.rejected = {}]
                        /\ UNCHANGED <<stage, loop>>
    /\ UNCHANGED <<env, call>>

Next == Translate \/ MainRequest \/ RunChunk \/ KillInChunkWrite \/ WaveEnd \/ AfterPass

Spec == Init /\ [][Next]_vars

NextNoKill == Translate \/ MainRequest \/ RunChunk \/ WaveEnd \/ AfterPass

InitSingle == Init /\ env.cls = "single"
InitMulti == Init /\ env.cls = "multi"
InitScenario == Init /\ env.cls = "scenario"

SpecSingle == InitSingle /\ [][NextNoKill]_vars
SpecMulti == InitMulti /\ [][Next]_vars
SpecScenario == InitScenario /\ [][NextNoKill]_vars

-----------------------------------------------------------------------------
(* download_selector / _process_one: one episode over its cache files       *)
(* (src/rtve_dl/workflows/download.py, src/rtve_dl/ffmpeg.py)               *)

\* The episode is processed at most this many times on the same tree.
MaxRuns == 2

\* Durations in seconds: a download that came out short, one that is just
\* long enough for the provider's subtitles, the end of the provider's
\* subtitle timeline, and the end of the timeline of a subtitle file that was
\* cut while it was written.
ShortVideo == 40
BorderVideo == 2520
SubEnd == 3600
TornEnd == 50

\* min_ratio = 0.70 of _mp4_matches_es_srt, as a fraction.
MinRatioNum == 7
MinRatioDen == 10

\* The paths of one episode (tmp_layout.py and _process_one).
out_mkv == "data/S01E01.mkv"
tmp_out == "data/S01E01.mkv.partial.mkv"
mp4_path == "mp4/S01E01.mp4"
part_mp4 == "mp4/S01E01.mp4.partial.mp4"
vtt_es == "vtt/a1.es.vtt"
vtt_en == "vtt/a1.en.vtt"
srt_es == "srt/S01E01.spa.srt"
srt_es_raw == "srt/S01E01.spa.asr_raw.srt"
srt_en == "srt/S01E01.eng.srt"
srt_ru == "srt/S01E01.rus.srt"
srt_bi == "srt/S01E01.spa_rus.srt"
srt_bi_full == "srt/S01E01.spa_rus_full.srt"
srt_es_asr == "srt/S01E01.spa.asr.srt"
srt_en_asr == "srt/S01E01.eng.asr.srt"
srt_ru_asr == "srt/S01E01.rus.asr.srt"
srt_bi_asr == "srt/S01E01.spa_rus.asr.srt"
srt_bi_full_asr == "srt/S01E01.spa_rus_full.asr.srt"

\* The final cache paths: every path but the two temp paths.
CachePaths ==
    {out_mkv, mp4_path, vtt_es, vtt_en, srt_es, srt_es_raw, srt_en, srt_ru, srt_bi,
     srt_bi_full, srt_es_asr, srt_en_asr, srt_ru_asr, srt_bi_asr, srt_bi_full_asr}

\* A file on disk: whether it has bytes, whether its writer wrote all of it,
\* and the duration it holds: the playing time of a video (0 when none can be
\* read from it), the end of the timeline of a subtitle file (0 when it has
\* no cue).
Bytes(whole, dur) == [size |-> 1, whole |-> whole, dur |-> dur]
ZeroBytes == [size |-> 0, whole |-> FALSE, dur |-> 0]

\* What a write of `f` with open("w") or write_text leaves when the process
\* is killed in it: the truncated file, or the first part of the content.
TornFile(f) == {ZeroBytes, Bytes(FALSE, Min(f.dur, TornEnd))}

_is_nonempty_file(d, path) == path \in DOMAIN d /\ d[path].size > 0

\* _remove_if_empty leaving the empty file where it is.
KeepEmpty(d, path) == d

_remove_if_empty(d, path) ==
    IF path \in DOMAIN d /\ d[path].size = 0 THEN RemoveFile(d, path) ELSE d

RECURSIVE RemoveEmpties(_, _)
RemoveEmpties(d, paths) ==
    IF paths = <<>> THEN d
    ELSE RemoveEmpties(_remove_if_empty(d, Head(paths)), Tail(paths))

\* ffprobe finds a duration in the file.
is_valid_mp4(d, path) == path \in DOMAIN d /\ d[path].size > 0 /\ d[path].dur > 0

\* The probed duration, 0 standing for None.
probe_duration_seconds(d, path) == IF is_valid_mp4(d, path) THEN d[path].dur ELSE 0

\* _srt_duration_seconds, lines 344-349: the end of the last cue, 0 without
\* cues; -1 stands for the FileNotFoundError of read_text when there is no
\* file.
_srt_duration_seconds(d, path) == IF path \in DOMAIN d THEN d[path].dur ELSE -1

\* _mp4_matches_es_srt with a strict comparison: a video of exactly 70% of
\* the timeline does not fit.
MatchesStrict(d, mp4, srt) ==
    LET v_dur == probe_duration_seconds(d, mp4)
        s_dur == _srt_duration_seconds(d, srt)
    IN  IF v_dur = 0 THEN "no"
        ELSE IF s_dur = -1 THEN "raise"
        ELSE IF s_dur <= 0 THEN "yes"
        ELSE IF v_dur * MinRatioDen > s_dur * MinRatioNum THEN "yes" ELSE "no"

\* _mp4_matches_es_srt, lines 352-359: "yes", "no", or "raise" when the
\* subtitle file cannot be read.
_mp4_matches_es_srt(d, mp4, srt) ==
    LET v_dur == probe_duration_seconds(d, mp4)
        s_dur == _srt_duration_seconds(d, srt)
    IN  IF v_dur = 0 THEN "no"
        ELSE IF s_dur = -1 THEN "raise"
        ELSE IF s_dur <= 0 THEN "yes"
        ELSE IF v_dur * MinRatioDen >= s_dur * MinRatioNum THEN "yes" ELSE "no"

\* _collect_local_subs_for_mux, lines 253-341: the tree after its removals of
\* empty files, whether the mux inputs are all there (the result is not
\* None), and the subtitle files of the mux list.
_collect_local_subs_for_mux(d, force_asr, with_ru, translate_en_if_missing) ==
    LET d1 == RemoveEmpties(d, <<srt_es, srt_en, srt_ru, srt_bi, srt_bi_full>>)
        d2 == RemoveEmpties(d1, <<srt_es_asr, srt_en_asr, srt_ru_asr, srt_bi_asr,
                                  srt_bi_full_asr>>)
        has(dd, p) == _is_nonempty_file(dd, p)
        ru3(dd) == has(dd, srt_ru) /\ has(dd, srt_bi) /\ has(dd, srt_bi_full)
    IN  IF force_asr
        THEN [d |-> d2,
              ready |-> /\ has(d2, srt_es_asr) /\ has(d2, srt_en_asr)
                        /\ has(d2, srt_ru_asr) /\ has(d2, srt_bi_asr)
                        /\ has(d2, srt_bi_full_asr),
              subs |-> (IF has(d2, srt_es) THEN {srt_es} ELSE {})
                       \cup (IF has(d2, srt_en) THEN {srt_en} ELSE {})
                       \cup (IF ru3(d2) THEN {srt_ru, srt_bi, srt_bi_full} ELSE {})
                       \cup {srt_es_asr, srt_en_asr, srt_ru_asr, srt_bi_asr,
                             srt_bi_full_asr}]
        ELSE [d |-> d1,
              ready |-> /\ has(d1, srt_es)
                        /\ translate_en_if_missing => has(d1, srt_en)
                        /\ with_ru => ru3(d1),
              subs |-> {srt_es}
                       \cup (IF translate_en_if_missing THEN {srt_en} ELSE {})
                       \cup (IF with_ru THEN {srt_ru, srt_bi, srt_bi_full} ELSE {})]

\* The inputs of one behaviour over an episode: the flags of
\* download_selector (with es_postprocess off), what the Resolver finds, and
\* what a download can yield.  The translations of an episode are drawn in
\* EnTranslate and RuFile: the behaviour makes no translate_es call of its
\* own.
EpisodeEnvs ==
    [cls : {"episode"},
     force_asr : BOOLEAN, parallel : BOOLEAN,
     with_ru : BOOLEAN, require_ru : BOOLEAN,
     translate_en_if_missing : BOOLEAN, asr_if_missing : BOOLEAN,
     es_vtt : BOOLEAN, en_vtt : BOOLEAN,
     vdurs : {{ShortVideo}, {0, BorderVideo}},
     kill : BOOLEAN,
     calls : {0}, ns : {{}}, sizes : {{}}, tags : {{}}]

\* The locals of _process_one and of its tasks, and the counts of the calls
\* to the collaborators in the current run.
\*   pc      where the main thread stands
\*   video   _task_video: "idle", "check", "download", "ok", "raised"
\*   force   the force_redownload argument of the running _task_video
\*   vret    where the main thread goes on when a _task_video it called
\*           returns ("" for the one submitted to the pool)
\*   en, ru  the EN and RU-family tasks of the translation pool
\*   cues    the cues the translations work on: read or not, whether they
\*           are all the cues of the episode, and where their timeline ends
\*   subs    the subtitle files of the mux list
\*   asr     how the Transcriber failed last: "" (not at all),
\*           "recoverable" or "fatal" in its first run, "second" in its
\*           second run
\*   status  "running", "ok", "failed" or "killed"
StartEpisode(run) ==
    [run |-> run, pc |-> "start", status |-> "running",
     video |-> "idle", force |-> FALSE, vret |-> "",
     en |-> "idle", ru |-> "idle",
     cues |-> [read |-> FALSE, whole |-> FALSE, dur |-> 0],
     subs |-> {},
     asr |-> "",
     nres |-> 0, ndl |-> 0, nforce |-> 0, nasr |-> 0, ntr |-> 0, nmux |-> 0]

InitEpisode ==
    /\ env \in EpisodeEnvs
    /\ fs = <<>>
    /\ pc = "idle"
    /\ call = NoCall
    /\ stage = NoStage
    /\ loop = NoLoop
    /\ merged = EmptyMap
    /\ result = NoResult
    /\ obs = NoObs
    /\ ep = StartEpisode(1)
    /\ disk \in {<<>>, (out_mkv :> ZeroBytes), (mp4_path :> ZeroBytes)}
    /\ season = NoSeason
    /\ calc = NoCalc

\* The variables an episode step leaves alone: the translation scheduler's,
\* the season run's and the function applications'.
tvars == <<env, fs, pc, call, stage, loop, merged, result, obs, season, calc>>

\* An exception reaches the except clause of _process_one, lines 1266-1273,
\* once the pools the main thread is in have shut down.
Raise(e) == [e EXCEPT !.pc = "unwind"]

Running == ep.status = "running"

\* PRECHECK without the test for the final output.
PrecheckNoSkip ==
    /\ Running /\ ep.pc = "start"
    /\ LET d0 == _remove_if_empty(disk, out_mkv)
           loc == _collect_local_subs_for_mux(d0, env.force_asr, env.with_ru,
                                              env.translate_en_if_missing)
           fits == IF loc.ready /\ is_valid_mp4(loc.d, mp4_path)
                   THEN _mp4_matches_es_srt(loc.d, mp4_path, srt_es)
                   ELSE "no"
       IN  /\ disk' = loc.d
           /\ ep' = IF fits = "yes" THEN [ep EXCEPT !.pc = "mux", !.subs = loc.subs]
                    ELSE IF fits = "raise" THEN Raise(ep)
                    ELSE [ep EXCEPT !.pc = "resolve"]
    /\ UNCHANGED tvars

\* PRECHECK, lines 494-533: a final output that is there ends the episode; a
\* tree that holds every mux input and a video that fits the subtitles goes
\* to the Muxer; anything else goes to the Resolver.
Precheck ==
    /\ Running /\ ep.pc = "start"
    /\ LET d0 == _remove_if_empty(disk, out_mkv)
           loc == _collect_local_subs_for_mux(d0, env.force_asr, env.with_ru,
                                              env.translate_en_if_missing)
           fits == IF loc.ready /\ is_valid_mp4(loc.d, mp4_path)
                   THEN _mp4_matches_es_srt(loc.d, mp4_path, srt_es)
                   ELSE "no"
       IN  IF out_mkv \in DOMAIN d0
           THEN /\ disk' = d0
                /\ ep' = [ep EXCEPT !.pc = "done", !.status = "ok"]
           ELSE /\ disk' = loc.d
                /\ ep' = IF fits = "yes" THEN [ep EXCEPT !.pc = "mux", !.subs = loc.subs]
                         ELSE IF fits = "raise" THEN Raise(ep)
                         ELSE [ep EXCEPT !.pc = "resolve"]
    /\ UNCHANGED tvars

\* A call of _task_video by the main thread, which waits for it.
CallVideo(e, force, ret) ==
    [e EXCEPT !.pc = "wait_video", !.video = "check", !.force = force, !.vret = ret,
              !.nforce = e.nforce + (IF force THEN 1 ELSE 0)]

\* RESOLVE with the video always given to the pool in parallel mode.
ResolvePoolAlways ==
    /\ Running /\ ep.pc = "resolve"
    /\ \E found \in BOOLEAN :
          LET e == [ep EXCEPT !.nres = ep.nres + 1]
              d0 == _remove_if_empty(disk, out_mkv)
          IN  /\ disk' = IF found THEN d0 ELSE disk
              /\ ep' = IF ~found THEN Raise(e)
                       ELSE IF out_mkv \in DOMAIN d0
                       THEN [e EXCEPT !.pc = "done", !.status = "ok"]
                       ELSE IF env.force_asr THEN CallVideo(e, FALSE, "guard")
                       ELSE IF env.parallel
                       THEN [e EXCEPT !.pc = "es", !.video = "check"]
                       ELSE CallVideo(e, FALSE, "es")
    /\ UNCHANGED tvars

\* RESOLVE, lines 535-553, and the start of the branch the flags select,
\* lines 1124-1241.
Resolve ==
    /\ Running /\ ep.pc = "resolve"
    /\ \E found \in BOOLEAN :
          LET e == [ep EXCEPT !.nres = ep.nres + 1]
              d0 == _remove_if_empty(disk, out_mkv)
          IN  /\ disk' = IF found THEN d0 ELSE disk
              /\ ep' = IF ~found THEN Raise(e)
                       ELSE IF out_mkv \in DOMAIN d0
                       THEN [e EXCEPT !.pc = "done", !.status = "ok"]
                       ELSE IF env.force_asr THEN CallVideo(e, FALSE, "guard")
                       ELSE IF env.parallel /\ env.es_vtt
                       THEN [e EXCEPT !.pc = "es", !.video = "check"]
                       ELSE CallVideo(e, FALSE, "es")
    /\ UNCHANGED tvars

\* _task_video has returned or raised: to the caller that waits for it, or
\* into the future of the pool.
VideoDone(e, outcome) ==
    IF e.pc # "wait_video" THEN [e EXCEPT !.video = outcome]
    ELSE IF outcome = "ok"
    THEN [e EXCEPT !.video = "idle", !.force = FALSE, !.pc = e.vret, !.vret = ""]
    ELSE Raise([e EXCEPT !.video = "idle", !.force = FALSE, !.vret = ""])

\* _task_video taking any cached file for a hit, without the probe.
VideoCheckUnprobed ==
    /\ Running /\ ep.video = "check"
    /\ LET d1 == IF ep.force THEN RemoveFile(disk, mp4_path) ELSE disk
           hit == mp4_path \in DOMAIN d1
       IN  /\ disk' = d1
           /\ ep' = IF hit THEN VideoDone(ep, "ok") ELSE [ep EXCEPT !.video = "download"]
    /\ UNCHANGED tvars

\* _task_video up to the download, lines 556-572.
VideoCheck ==
    /\ Running /\ ep.video = "check"
    /\ LET d1 == IF ep.force THEN RemoveFile(disk, mp4_path) ELSE disk
           hit == mp4_path \in DOMAIN d1 /\ is_valid_mp4(d1, mp4_path)
       IN  /\ disk' = IF hit THEN d1 ELSE RemoveFile(d1, mp4_path)
           /\ ep' = IF hit THEN VideoDone(ep, "ok") ELSE [ep EXCEPT !.video = "download"]
    /\ UNCHANGED tvars

\* download_to_mp4 and the probe of what it wrote, lines 574-578 and
\* ffmpeg.py 70-119: the download fails, or the temp file it wrote is renamed
\* onto the cache path.
Download ==
    /\ Running /\ ep.video = "download"
    /\ LET e == [ep EXCEPT !.ndl = ep.ndl + 1]
       IN  \/ /\ disk' = WriteFile(disk, part_mp4, Bytes(FALSE, 0))
              /\ ep' = VideoDone(e, "raised")
           \/ \E dur \in env.vdurs :
                 LET d1 == WriteFile(RemoveFile(disk, part_mp4), mp4_path, Bytes(TRUE, dur))
                 IN  /\ disk' = d1
                     /\ ep' = VideoDone(e, IF is_valid_mp4(d1, mp4_path) THEN "ok"
                                           ELSE "raised")
    /\ UNCHANGED tvars

\* video_future.result(), line 1204.
JoinVideo ==
    /\ Running /\ ep.pc = "join_video"
    /\ ep.video \in {"ok", "raised"}
    /\ ep' = IF ep.video = "ok" THEN [ep EXCEPT !.pc = "guard", !.video = "idle"]
             ELSE Raise([ep EXCEPT !.video = "idle"])
    /\ UNCHANGED <<disk, tvars>>

\* Where the main thread goes on after the ES subtitles, after the
\* consistency guard and after the transcription.
AfterEs == IF env.force_asr THEN "fa_en"
           ELSE IF env.parallel /\ env.es_vtt THEN "join_video" ELSE "guard"
AfterGuard == IF env.force_asr THEN (IF env.es_vtt THEN "es_vtt" ELSE "fa_en") ELSE "tr"

\* The file the transcription ends in: _task_asr's in force-ASR mode, lines
\* 729-730, _task_es's otherwise.
AsrTarget == IF env.force_asr THEN srt_es_asr ELSE srt_es

\* _download_sub_vtt, lines 245-250: the tree it leaves when the download
\* succeeds.
_download_sub_vtt(d, path) ==
    LET d1 == _remove_if_empty(d, path)
    IN  IF path \in DOMAIN d1 THEN d1 ELSE WriteFile(d1, path, Bytes(TRUE, SubEnd))

\* A subtitle file converted or copied from the file at `from`.
CopyOf(d, from) == Bytes(d[from].whole, d[from].dur)

\* _task_es, lines 625-644: the provider's subtitles, the transcription, or
\* no subtitles at all.
EsStart ==
    /\ Running /\ ep.pc = "es"
    /\ ep' = IF env.es_vtt THEN [ep EXCEPT !.pc = "es_vtt"]
             ELSE IF ~env.asr_if_missing THEN Raise(ep)
             ELSE [ep EXCEPT !.pc = "asr"]
    /\ UNCHANGED <<disk, tvars>>

\* download:subs:es, lines 628-630.
EsVtt ==
    /\ Running /\ ep.pc = "es_vtt"
    /\ \/ /\ vtt_es \notin DOMAIN _remove_if_empty(disk, vtt_es)
          /\ disk' = _remove_if_empty(disk, vtt_es)
          /\ ep' = Raise(ep)
       \/ /\ disk' = _download_sub_vtt(disk, vtt_es)
          /\ ep' = [ep EXCEPT !.pc = "es_srt"]
    /\ UNCHANGED tvars

\* build:srt:es, lines 631-639, and the caller's subs.append.
EsSrt ==
    /\ Running /\ ep.pc = "es_srt"
    /\ LET d1 == _remove_if_empty(disk, srt_es)
       IN  /\ disk' = IF _is_nonempty_file(d1, srt_es) THEN d1
                      ELSE WriteFile(d1, srt_es, CopyOf(d1, vtt_es))
           /\ ep' = [ep EXCEPT !.pc = AfterEs,
                               !.cues = [read |-> TRUE, whole |-> disk[vtt_es].whole,
                                        dur |-> disk[vtt_es].dur],
                               !.subs = ep.subs \cup {srt_es}]
    /\ UNCHANGED tvars

\* build:srt:es_asr, lines 645-676 and 692-706 (731-762 and 778-787 in
\* force-ASR mode): the cached subtitles, the cached raw transcription, or a
\* run of the Transcriber.
AsrCheck ==
    /\ Running /\ ep.pc = "asr"
    /\ LET d1 == RemoveEmpties(disk, <<srt_es_raw, AsrTarget>>)
           hit == _is_nonempty_file(d1, AsrTarget)
           d2 == IF hit /\ ~env.force_asr /\ ~_is_nonempty_file(d1, srt_es_raw)
                 THEN WriteFile(d1, srt_es_raw, CopyOf(d1, srt_es))
                 ELSE d1
       IN  /\ disk' = d2
           /\ ep' = IF hit
                    THEN [ep EXCEPT !.pc = IF env.force_asr THEN "tr" ELSE AfterEs,
                                    !.cues = [read |-> TRUE, whole |-> d1[AsrTarget].whole,
                                             dur |-> d1[AsrTarget].dur],
                                    !.subs = ep.subs \cup {AsrTarget}]
                    ELSE IF _is_nonempty_file(d1, srt_es_raw)
                    THEN [ep EXCEPT !.pc = "asr_canon"]
                    ELSE [ep EXCEPT !.pc = "asr_run"]
    /\ UNCHANGED tvars

\* What the Transcriber writes for the video on disk.
Transcript(d) == Bytes(TRUE, probe_duration_seconds(d, mp4_path))

\* The failures of the Transcriber: one of the recoverable messages, lines
\* 680-685, or another.
AsrFailures == {"recoverable", "fatal"}

\* _run_asr with every failure answered by a forced re-download.
AsrRunRetryAll ==
    /\ Running /\ ep.pc = "asr_run"
    /\ LET e == [ep EXCEPT !.nasr = ep.nasr + 1]
       IN  \/ /\ disk' = WriteFile(disk, srt_es_raw, Transcript(disk))
              /\ ep' = [e EXCEPT !.pc = "asr_canon"]
           \/ \E failure \in AsrFailures :
                 /\ disk' = disk
                 /\ ep' = CallVideo([e EXCEPT !.asr = failure], TRUE, "asr_rerun")
    /\ UNCHANGED tvars

\* _run_asr and its except clause, lines 677-689 (763-775).
AsrRun ==
    /\ Running /\ ep.pc = "asr_run"
    /\ LET e == [ep EXCEPT !.nasr = ep.nasr + 1]
       IN  \/ /\ disk' = WriteFile(disk, srt_es_raw, Transcript(disk))
              /\ ep' = [e EXCEPT !.pc = "asr_canon"]
           \/ \E failure \in AsrFailures :
                 /\ disk' = disk
                 /\ ep' = IF failure = "recoverable"
                          THEN CallVideo([e EXCEPT !.asr = failure], TRUE, "asr_rerun")
                          ELSE Raise([e EXCEPT !.asr = failure])
    /\ UNCHANGED tvars

\* The second _run_asr, line 690 (776).
AsrRerun ==
    /\ Running /\ ep.pc = "asr_rerun"
    /\ LET e == [ep EXCEPT !.nasr = ep.nasr + 1]
       IN  \/ /\ disk' = WriteFile(disk, srt_es_raw, Transcript(disk))
              /\ ep' = [e EXCEPT !.pc = "asr_canon"]
           \/ /\ disk' = disk
              /\ ep' = Raise([e EXCEPT !.asr = "second"])
    /\ UNCHANGED tvars

\* _write_canonical_from_raw and the parse of what it wrote, lines 649-652,
\* 691 and 699 (735-738, 777 and 781).
AsrCanon ==
    /\ Running /\ ep.pc = "asr_canon"
    /\ IF ~_is_nonempty_file(disk, srt_es_raw)
       THEN /\ disk' = disk
            /\ ep' = Raise(ep)
       ELSE /\ disk' = WriteFile(disk, AsrTarget, CopyOf(disk, srt_es_raw))
            /\ ep' = [ep EXCEPT !.pc = IF env.force_asr THEN "tr" ELSE AfterEs,
                                !.cues = [read |-> TRUE, whole |-> disk[srt_es_raw].whole,
                                         dur |-> disk[srt_es_raw].dur],
                                !.subs = ep.subs \cup {AsrTarget}]
    /\ UNCHANGED tvars

\* _ensure_mp4_consistent_with_es up to the forced re-download, lines 708-719.
Guard ==
    /\ Running /\ ep.pc = "guard"
    /\ ep' = IF ~_is_nonempty_file(disk, srt_es) THEN [ep EXCEPT !.pc = AfterGuard]
             ELSE IF _mp4_matches_es_srt(disk, mp4_path, srt_es) = "yes"
             THEN [ep EXCEPT !.pc = AfterGuard]
             ELSE CallVideo(ep, TRUE, "guard2")
    /\ UNCHANGED <<disk, tvars>>

\* The second comparison, lines 720-725.
Guard2 ==
    /\ Running /\ ep.pc = "guard2"
    /\ ep' = IF _mp4_matches_es_srt(disk, mp4_path, srt_es) = "yes"
             THEN [ep EXCEPT !.pc = AfterGuard]
             ELSE Raise(ep)
    /\ UNCHANGED <<disk, tvars>>

\* The cached translations of the provider's subtitles that force-ASR mode
\* adds to the mux list, lines 1151-1165.
CachedTracks(d) ==
    (IF ~env.en_vtt /\ _is_nonempty_file(d, srt_en) THEN {srt_en} ELSE {})
    \cup (IF /\ _is_nonempty_file(d, srt_ru) /\ _is_nonempty_file(d, srt_bi)
             /\ _is_nonempty_file(d, srt_bi_full)
          THEN {srt_ru, srt_bi, srt_bi_full} ELSE {})

\* Force-ASR mode, download:subs:en, lines 1137-1139; without the provider's
\* EN subtitles, straight to the cached tracks and the transcription.
FaEn ==
    /\ Running /\ ep.pc = "fa_en"
    /\ IF ~env.en_vtt
       THEN /\ disk' = disk
            /\ ep' = [ep EXCEPT !.pc = "asr", !.subs = ep.subs \cup CachedTracks(disk)]
       ELSE \/ /\ vtt_en \notin DOMAIN _remove_if_empty(disk, vtt_en)
               /\ disk' = _remove_if_empty(disk, vtt_en)
               /\ ep' = Raise(ep)
            \/ /\ disk' = _download_sub_vtt(disk, vtt_en)
               /\ ep' = [ep EXCEPT !.pc = "fa_en_srt"]
    /\ UNCHANGED tvars

\* Force-ASR mode, build:srt:en and the cached tracks, lines 1140-1165.
FaEnSrt ==
    /\ Running /\ ep.pc = "fa_en_srt"
    /\ LET d1 == _remove_if_empty(disk, srt_en)
           d2 == IF _is_nonempty_file(d1, srt_en) THEN d1
                 ELSE WriteFile(d1, srt_en, CopyOf(d1, vtt_en))
       IN  /\ disk' = d2
           /\ ep' = [ep EXCEPT !.pc = "asr",
                               !.subs = ep.subs \cup {srt_en} \cup CachedTracks(d2)]
    /\ UNCHANGED tvars

\* The files of the EN task and of the RU-family task: the ASR ones in
\* force-ASR mode.
EnTarget == IF env.force_asr THEN srt_en_asr ELSE srt_en
RuTarget == IF env.force_asr THEN srt_ru_asr ELSE srt_ru
BiTarget == IF env.force_asr THEN srt_bi_asr ELSE srt_bi
BiFullTarget == IF env.force_asr THEN srt_bi_full_asr ELSE srt_bi_full

\* A subtitle file built from the cues in memory: it has their timeline.
FromCues(c) == Bytes(c.whole, c.dur)

\* The two translation tasks are submitted (or, without `parallel`, called
\* one after the other), lines 1173-1190 and 1207-1249.
TrStart ==
    /\ Running /\ ep.pc = "tr"
    /\ ep' = [ep EXCEPT !.pc = "tr_join", !.en = "start", !.ru = "start"]
    /\ UNCHANGED <<disk, tvars>>

EnEnded == ep.en \in {"ok", "none", "raised"}
RuEnded == ep.ru \in {"ok", "none", "raised"}

\* _task_en up to its first call, lines 942-964 (_task_en_asr, 789-794).
EnStart ==
    /\ Running /\ ep.en = "start"
    /\ LET d1 == _remove_if_empty(disk, EnTarget)
       IN  IF ~env.force_asr /\ env.en_vtt
           THEN /\ disk' = disk /\ ep' = [ep EXCEPT !.en = "vtt"]
           ELSE IF ~env.force_asr /\ ~env.translate_en_if_missing
           THEN /\ disk' = disk /\ ep' = [ep EXCEPT !.en = "none"]
           ELSE /\ disk' = d1
                /\ ep' = [ep EXCEPT !.en = IF _is_nonempty_file(d1, EnTarget)
                                           THEN "ok" ELSE "tr"]
    /\ UNCHANGED tvars

\* download:subs:en, lines 944-945.
EnVtt ==
    /\ Running /\ ep.en = "vtt"
    /\ \/ /\ vtt_en \notin DOMAIN _remove_if_empty(disk, vtt_en)
          /\ disk' = _remove_if_empty(disk, vtt_en)
          /\ ep' = [ep EXCEPT !.en = "raised"]
       \/ /\ disk' = _download_sub_vtt(disk, vtt_en)
          /\ ep' = [ep EXCEPT !.en = "conv"]
    /\ UNCHANGED tvars

\* build:srt:en, lines 946-955.
EnConv ==
    /\ Running /\ ep.en = "conv"
    /\ LET d1 == _remove_if_empty(disk, srt_en)
       IN  disk' = IF _is_nonempty_file(d1, srt_en) THEN d1
                   ELSE WriteFile(d1, srt_en, CopyOf(d1, vtt_en))
    /\ ep' = [ep EXCEPT !.en = "ok"]
    /\ UNCHANGED tvars

\* build:srt:en_mt, lines 965-999 (795-826): the translation raises, or its
\* result is written.
EnTranslate ==
    /\ Running /\ ep.en = "tr"
    /\ LET e == [ep EXCEPT !.ntr = ep.ntr + 1]
       IN  \/ /\ disk' = disk
              /\ ep' = [e EXCEPT !.en = "raised"]
           \/ /\ disk' = WriteFile(disk, EnTarget, FromCues(ep.cues))
              /\ ep' = [e EXCEPT !.en = "ok"]
    /\ UNCHANGED tvars

\* Without `parallel` _task_ru is called when _task_en has ended.
RuMayRun == env.parallel \/ EnEnded

\* _task_ru up to its first translation, lines 1001-1018 (828-842).
RuStart ==
    /\ Running /\ ep.ru = "start" /\ RuMayRun
    /\ IF ~env.force_asr /\ ~env.with_ru
       THEN /\ disk' = disk
            /\ ep' = [ep EXCEPT !.ru = IF env.require_ru THEN "raised" ELSE "none"]
       ELSE /\ disk' = RemoveEmpties(disk, <<RuTarget, BiTarget, BiFullTarget>>)
            /\ ep' = [ep EXCEPT !.ru = "ru"]
    /\ UNCHANGED tvars

\* One file of the RU family: a cache hit, or a translation whose result is
\* written, lines 1020-1094 (844-912).
RuFile(at, target, then) ==
    /\ Running /\ ep.ru = at
    /\ IF _is_nonempty_file(disk, target)
       THEN /\ disk' = disk
            /\ ep' = [ep EXCEPT !.ru = then]
       ELSE LET e == [ep EXCEPT !.ntr = ep.ntr + 1]
            IN  \/ /\ disk' = disk
                   /\ ep' = [e EXCEPT !.ru = "raised"]
                \/ /\ disk' = WriteFile(disk, target, FromCues(ep.cues))
                   /\ ep' = [e EXCEPT !.ru = then]
    /\ UNCHANGED tvars

RuFull == RuFile("ru", RuTarget, "refs")
RuRefs == RuFile("refs", BiTarget, "dual")

\* The ES+RU file, lines 1096-1119 (914-937), from the RU translation in
\* memory or from the cached RU file.
RuDual ==
    /\ Running /\ ep.ru = "dual"
    /\ disk' = IF _is_nonempty_file(disk, BiFullTarget) THEN disk
               ELSE WriteFile(disk, BiFullTarget,
                              FromCues([ep.cues EXCEPT !.whole = @ /\ disk[RuTarget].whole]))
    /\ ep' = [ep EXCEPT !.ru = "ok"]
    /\ UNCHANGED tvars

\* The results taken as soon as the EN task has ended, with the RU-family
\* task left running.
TrJoinEarly ==
    /\ Running /\ ep.pc = "tr_join" /\ EnEnded
    /\ LET e == [ep EXCEPT !.en = "idle",
                           !.subs = ep.subs
                              \cup (IF ep.en = "ok" THEN {EnTarget} ELSE {})
                              \cup (IF ep.ru = "ok"
                                    THEN {RuTarget, BiTarget, BiFullTarget} ELSE {})]
       IN  ep' = IF ep.ru = "raised" THEN Raise(e) ELSE [e EXCEPT !.pc = "mux"]
    /\ UNCHANGED <<disk, tvars>>

\* The results of the two futures, lines 1177-1190 and 1210-1249: a failure
\* of the EN task is logged, one of the RU-family task is raised.
TrJoin ==
    /\ Running /\ ep.pc = "tr_join" /\ EnEnded /\ RuEnded
    /\ LET e == [ep EXCEPT !.en = "idle", !.ru = "idle",
                           !.subs = ep.subs
                              \cup (IF ep.en = "ok" THEN {EnTarget} ELSE {})
                              \cup (IF ep.ru = "ok"
                                    THEN {RuTarget, BiTarget, BiFullTarget} ELSE {})]
       IN  ep' = IF ep.ru = "raised" THEN Raise(e) ELSE [e EXCEPT !.pc = "mux"]
    /\ UNCHANGED <<disk, tvars>>

\* What the Muxer writes from the video and the subtitle files of the list.
Muxed(d, subs) == Bytes(\A p \in subs \cup {mp4_path} : p \in DOMAIN d /\ d[p].whole,
                        probe_duration_seconds(d, mp4_path))

\* MUX with the Muxer writing onto the final path itself.
MuxInPlace ==
    /\ Running /\ ep.pc = "mux"
    /\ LET e == [ep EXCEPT !.nmux = ep.nmux + 1]
       IN  \/ /\ disk' = WriteFile(disk, out_mkv, Bytes(FALSE, 0))
              /\ ep' = Raise(e)
           \/ /\ disk' = WriteFile(disk, out_mkv, Muxed(disk, ep.subs))
              /\ ep' = [e EXCEPT !.pc = "done", !.status = "ok"]
    /\ UNCHANGED tvars

\* MUX, lines 1251-1265 (and 519-533): mux_mkv writes the temp path and
\* fails, or returns and the temp file is renamed onto the final path.
Mux ==
    /\ Running /\ ep.pc = "mux"
    /\ LET e == [ep EXCEPT !.nmux = ep.nmux + 1]
       IN  \/ /\ disk' = WriteFile(disk, tmp_out, Bytes(FALSE, 0))
              /\ ep' = Raise(e)
           \/ /\ disk' = WriteFile(RemoveFile(disk, tmp_out), out_mkv, Muxed(disk, ep.subs))
              /\ ep' = [e EXCEPT !.pc = "done", !.status = "ok"]
    /\ UNCHANGED tvars

\* The except clause of _process_one, lines 1266-1273, reached when the pool
\* the exception crossed has no running task left.
Unwind ==
    /\ Running /\ ep.pc = "unwind"
    /\ ep.video \notin {"check", "download"}
    /\ ep' = [ep EXCEPT !.pc = "failed", !.status = "failed", !.video = "idle"]
    /\ UNCHANGED <<disk, tvars>>

\* The writes in progress: each path that a thread is about to write, with
\* what it would hold when written in full.
Writing ==
    LET fresh(p) == ~_is_nonempty_file(disk, p)
    IN  (IF ep.pc = "es_vtt" /\ fresh(vtt_es) THEN {<<vtt_es, Bytes(TRUE, SubEnd)>>} ELSE {})
        \cup (IF ep.pc = "es_srt" /\ fresh(srt_es)
              THEN {<<srt_es, CopyOf(disk, vtt_es)>>} ELSE {})
        \cup (IF ep.pc \in {"asr_run", "asr_rerun"}
              THEN {<<srt_es_raw, Transcript(disk)>>} ELSE {})
        \cup (IF ep.pc = "asr_canon" /\ ~fresh(srt_es_raw)
              THEN {<<AsrTarget, CopyOf(disk, srt_es_raw)>>} ELSE {})
        \cup (IF ep.pc = "fa_en" /\ env.en_vtt /\ fresh(vtt_en)
              THEN {<<vtt_en, Bytes(TRUE, SubEnd)>>} ELSE {})
        \cup (IF ep.pc = "fa_en_srt" /\ fresh(srt_en)
              THEN {<<srt_en, CopyOf(disk, vtt_en)>>} ELSE {})
        \cup (IF ep.en = "vtt" /\ fresh(vtt_en) THEN {<<vtt_en, Bytes(TRUE, SubEnd)>>} ELSE {})
        \cup (IF ep.en = "conv" /\ fresh(srt_en)
              THEN {<<srt_en, CopyOf(disk, vtt_en)>>} ELSE {})
        \cup (IF ep.en = "tr" THEN {<<EnTarget, FromCues(ep.cues)>>} ELSE {})
        \cup (IF ep.ru = "ru" /\ fresh(RuTarget)
              THEN {<<RuTarget, FromCues(ep.cues)>>} ELSE {})
        \cup (IF ep.ru = "refs" /\ fresh(BiTarget)
              THEN {<<BiTarget, FromCues(ep.cues)>>} ELSE {})
        \cup (IF ep.ru = "dual" /\ fresh(BiFullTarget)
              THEN {<<BiFullTarget, FromCues(ep.cues)>>} ELSE {})
        \cup (IF ep.video = "download" THEN {<<part_mp4, Bytes(TRUE, 0)>>} ELSE {})
        \cup (IF ep.pc = "mux" THEN {<<tmp_out, Bytes(TRUE, 0)>>} ELSE {})

\* The process is killed while one of its threads writes a file.
KillInWrite ==
    /\ Running /\ env.kill /\ ep.run = 1
    /\ \E w \in Writing : \E f \in TornFile(w[2]) :
          disk' = WriteFile(disk, w[1], f)
    /\ ep' = [ep EXCEPT !.pc = "killed", !.status = "killed",
                        !.video = "idle", !.en = "idle", !.ru = "idle"]
    /\ UNCHANGED tvars

\* The episode is processed again on the tree the last run left.
NextRun ==
    /\ ep.status \in {"ok", "failed", "killed"}
    /\ ep.run < MaxRuns
    /\ ep' = StartEpisode(ep.run + 1)
    /\ UNCHANGED <<disk, tvars>>

NextEpisode ==
    \/ Precheck \/ Resolve \/ VideoCheck \/ Download \/ JoinVideo
    \/ EsStart \/ EsVtt \/ EsSrt \/ AsrCheck \/ AsrRun \/ AsrRerun \/ AsrCanon
    \/ Guard \/ Guard2 \/ FaEn \/ FaEnSrt
    \/ TrStart \/ EnStart \/ EnVtt \/ EnConv \/ EnTranslate
    \/ RuStart \/ RuFull \/ RuRefs \/ RuDual \/ TrJoin
    \/ Mux \/ Unwind \/ KillInWrite \/ NextRun

SpecEpisode == InitEpisode /\ [][NextEpisode]_vars

\* A tree whose single-request cache file was truncated by a write that did
\* not get further (_write_nochunk_cache opens it with "w", line 232).
InitZeroCache ==
    /\ env \in {e \in MultiEnvs : e.mode = "nochunk" /\ ~e.legacy}
    /\ fs = (NochunkCache(BasePath, "ru") :> File(EmptyMap, 0, FALSE, [chunk_size |-> 2, io_tag |-> "ru"]))
    /\ pc = "idle"
    /\ call = NoCall
    /\ stage = NoStage
    /\ loop = NoLoop
    /\ merged = EmptyMap
    /\ result = NoResult
    /\ obs = NoObs
    /\ ep = NoEpisode
    /\ disk = <<>>
    /\ season = NoSeason
    /\ calc = NoCalc

\* Every cache of the program: the trees of repeated translate calls and the
\* files of an episode.
InitCaches == InitMulti \/ InitZeroCache \/ InitEpisode
NextCaches == Next \/ NextEpisode
SpecCaches == InitCaches /\ [][NextCaches]_vars

-----------------------------------------------------------------------------
(* Properties *)

\* C1: a translate call, in chunked or in single-request mode and whatever the
\* backend answers, returns normally only with a map whose keys include every
\* requested cue id; otherwise it raises.
C1_NoSilentPartial ==
    /\ result.status = "ok" => (pc = "done" /\ Want \subseteq Keys(result.map))
    /\ pc = "done" => result.status \in {"ok", "raised", "killed"}
    /\ result.status = "killed" => env.kill

\* A call that returned after gap-filling over ids the main pass left out.
C1_Witness ==
    /\ pc = "done" /\ result.status = "ok"
    /\ obs.gaps # <<>>
    /\ call.n = MaxCues

\* The requests about to be answered: the chunks of the wave that can complete
\* next, or the main request of single-request mode.
OpenRequests ==
    IF pc = "loop" THEN {stage.chunks[ci].part : ci \in {c \in loop.todo : CanComplete(loop, c)}}
    ELSE IF pc = "mainreq" THEN {cue_list(call.n)}
    ELSE {}

\* Row j of `rows` carries the correlation id and the echo of cue i of `part`.
RowMatches(rows, j, part, i) ==
    /\ rows[j].cols >= 3
    /\ rows[j].mid = _model_id(part[i][1], part[i][2])
    /\ rows[j].echo = _make_echo(part[i][2])

\* Whatever rows answer a request, a cue of it gets a text exactly when some
\* row carries both its correlation id and its echo, and the text is that of
\* such a row; rows naming no cue of the request add nothing.
AcceptsOnlyVerified ==
    \A part \in OpenRequests :
        Len(part) <= SmallChunk =>
            \A res \in {r \in Results(part) : r.rc = 0} :
                LET got == VerifiedRows(part, res.rows)
                IN  /\ Keys(got) \subseteq {part[i][1] : i \in 1..Len(part)}
                    /\ \A i \in 1..Len(part) :
                          LET hits == {j \in 1..Len(res.rows) : RowMatches(res.rows, j, part, i)}
                          IN  IF hits = {} THEN part[i][1] \notin Keys(got)
                              ELSE /\ part[i][1] \in Keys(got)
                                   /\ \E j \in hits : got[part[i][1]] = res.rows[j].text

\* The merge that follows a main pass in which rows were rejected for their
\* echo starts the first gap-filling round, and the round holds those cues.
RejectedAreRetried ==
    (pc = "merge" /\ stage.kind = "main" /\ obs.rejected # {}) =>
        /\ obs.rejected \subseteq Want \ Keys(merged')
        /\ pc' = "loop" /\ stage'.kind = "gap" /\ stage'.round = 1
        /\ obs.rejected \subseteq UNION {PartIds(stage'.chunks[k]) : k \in 1..Len(stage'.chunks)}

\* A call that ends with rejected rows that no gap-filling round took up has
\* raised in its main pass.
RejectedElseRaised ==
    (pc = "done" /\ obs.rejected # {}) => (result.status = "raised" /\ obs.gaps = <<>>)

RateLimitedWaveEnd ==
    /\ pc = "loop" /\ loop.todo = {}
    /\ RateLimited(loop)
    /\ loop.workers > BackoffWorkers

\* C3: when a wave of the escalation loop fails with a rate-limit signature
\* while parallelism is greater than 2, the next thing the loop does is drop
\* parallelism to 2 and retry the failed chunks; no fallback-model retry comes
\* before it.
C3_BackoffFirst ==
    [][RateLimitedWaveEnd =>
          /\ pc' = "loop"
          /\ loop'.workers = BackoffWorkers
          /\ loop'.pending = FailedChunks(loop)
          /\ loop'.fallback_done = loop.fallback_done]_vars

\* The fallback wave of a run of the escalation loop has completed and every
\* chunk it re-invoked has succeeded.
FallbackWaveSucceeded ==
    /\ pc = "loop" /\ loop.todo = {}
    /\ loop.fallback_done /\ loop.waves = 2
    /\ loop.failed = <<>>

\* At that point: the re-invoked chunks are those that failed on the primary
\* model, each was invoked once on each model, no other chunk was invoked on
\* the fallback model, and the worker count is the one the loop started with.
OneFallbackAttempt ==
    FallbackWaveSucceeded =>
        /\ loop.pending # <<>>
        /\ loop.fallback_model \notin {"", PrimaryModel}
        /\ \A ci \in SeqToSet(loop.pending) : obs.cnt[ci] = [p |-> 1, f |-> 1, ok |-> 2]
        /\ \A ci \in (1..Len(stage.chunks)) \ SeqToSet(loop.pending) :
              /\ obs.cnt[ci].f = 0 /\ obs.cnt[ci].p <= 1
              /\ obs.cnt[ci].p = 1 => obs.cnt[ci].ok = 1
        /\ loop.workers = obs.w0

\* A chunk that has succeeded on the fallback model in the fallback wave is not
\* invoked again, whatever happens to the other chunks of the run.
SucceededNotReinvoked ==
    pc = "loop" /\ loop.fallback_done =>
        \A ci \in 1..Len(stage.chunks) :
            obs.cnt[ci].ok = 2 => (obs.cnt[ci].p = 1 /\ obs.cnt[ci].f = 1)

\* The loop then returns: the next step leaves it without an error.
ReturnsAfterFallback ==
    FallbackWaveSucceeded => (pc' = "merge" /\ result' = result /\ loop' = loop)

\* C4: for the chunks whose invocation fails on the primary model and succeeds
\* on a configured fallback model different from the primary, exactly one
\* fallback invocation of each occurs, only the failed chunks are re-invoked,
\* the worker count is unchanged, and the escalation loop returns without
\* error.
C4_OneFallbackRetry ==
    /\ []OneFallbackAttempt
    /\ []SucceededNotReinvoked
    /\ [][ReturnsAfterFallback]_vars

\* A main pass of two chunks in which the second failed on the primary model
\* and succeeded on the fallback, with more than two workers configured.
C4_Witness ==
    /\ FallbackWaveSucceeded
    /\ stage.kind = "main" /\ Len(stage.chunks) = 2
    /\ loop.pending = <<2>>
    /\ loop.workers > BackoffWorkers

\* A run of the escalation loop has at most three waves, no chunk is invoked
\* more often than there were waves, and a third wave is one on the fallback
\* model with two workers after a start with more.
WavesBounded ==
    /\ loop.waves <= 3
    /\ pc = "loop" =>
          \A ci \in 1..Len(stage.chunks) : obs.cnt[ci].p + obs.cnt[ci].f <= loop.waves
    /\ loop.waves = 3 =>
          (loop.fallback_done /\ loop.workers = BackoffWorkers /\ obs.w0 > BackoffWorkers)
    /\ (loop.waves = 2 /\ ~loop.fallback_done) =>
          (loop.workers = BackoffWorkers /\ obs.w0 > BackoffWorkers)

\* A wave that ends with failures when no escalation is left raises the first
\* captured error.
RaisesWhenExhausted ==
    (/\ pc = "loop" /\ loop.todo = {} /\ loop.failed # <<>>
     /\ \/ loop.waves = 3
        \/ loop.fallback_done /\ loop.workers <= BackoffWorkers
        \/ loop.fallback_done /\ ~RateLimited(loop)) =>
        (pc' = "done" /\ result' = Raised(loop.failed[1].err))

\* The waves left to the run and the invocations left to its wave, as one
\* number.
LoopRank == (3 - loop.waves) * (Len(stage.chunks) + 1) + Cardinality(loop.todo)

\* Every step that stays in the loop lowers the rank, which never goes below 0.
RankDecreases ==
    (pc = "loop" /\ pc' = "loop") => (LoopRank' < LoopRank /\ LoopRank' >= 0)

\* The loop is never stuck: an invocation can complete or the wave can end.
LoopCanStep == pc = "loop" => ENABLED (RunChunk \/ WaveEnd)

\* C5: every backend invocation terminating, every run of the escalation loop
\* terminates (each of its steps lowers a rank bounded below, and a step is
\* always possible); it executes at most three waves (primary model, fallback
\* model, parallelism reduced to 2), so no chunk is invoked more than three
\* times per run, and with chunks still failing it raises instead of retrying
\* again.
C5_LoopTerminates ==
    /\ []WavesBounded
    /\ [][RaisesWhenExhausted]_vars
    /\ [][RankDecreases]_vars
    /\ []LoopCanStep

\* A run of the loop in its third wave, a chunk about to be invoked for the
\* third time.
C5_Witness ==
    /\ pc = "loop" /\ loop.waves = 3
    /\ \E ci \in loop.todo : obs.cnt[ci].p + obs.cnt[ci].f = 2

\* The ids of the cues in the chunks of the pass being run.
StageIds == UNION {PartIds(stage.chunks[k]) : k \in 1..Len(stage.chunks)}

\* The chunk size of gap-filling round k, as the code has it: in chunked mode
\* from the call's chunk size, in single-request mode from the number of ids
\* missing when the rounds start.
RoundSize(k) ==
    IF k = 1
    THEN IF env.mode = "chunked" THEN Min(50, call.chunk_size)
         ELSE Min(50, Cardinality(obs.gaps[1].ids))
    ELSE IF k = 2 THEN 10 ELSE 1

\* The rounds so far: at most three, at the sizes of RoundSize, each over a
\* non-empty set of ids of which every later round's is a part; the round
\* being run holds exactly the cues of its ids, in chunks of at most its size.
RoundsAsListed ==
    /\ Len(obs.gaps) <= 3
    /\ \A k \in 1..Len(obs.gaps) :
          /\ obs.gaps[k].sz = RoundSize(k)
          /\ obs.gaps[k].ids # {} /\ obs.gaps[k].ids \subseteq Want
          /\ k > 1 => obs.gaps[k].ids \subseteq obs.gaps[k - 1].ids
    /\ stage.kind = "gap" =>
          /\ stage.round = Len(obs.gaps)
          /\ StageIds = obs.gaps[stage.round].ids
          /\ \A k \in 1..Len(stage.chunks) :
                Len(stage.chunks[k].part) \in 1..obs.gaps[stage.round].sz
    /\ stage.kind = "main" => obs.gaps = <<>>

\* What follows a completed pass: with nothing missing the call returns; with
\* ids missing and sizes left, the next round runs over exactly the missing
\* ids; with ids missing after the third round the call raises.
AfterPassAsListed ==
    (pc = "merge" /\ ~(pc' = "done" /\ result'.err = "missing chunk")) =>
        LET missing == Want \ Keys(merged')
        IN  IF missing = {}
            THEN pc' = "done" /\ result' = Returned(merged') /\ obs'.gaps = obs.gaps
            ELSE IF Len(obs.gaps) < 3
            THEN /\ pc' = "loop" /\ stage'.kind = "gap"
                 /\ Len(obs'.gaps) = Len(obs.gaps) + 1
                 /\ obs'.gaps[Len(obs'.gaps)].ids = missing
            ELSE pc' = "done" /\ result' = Raised("missing ids")

\* The call raises for missing ids only after the third round, and a round
\* whose escalation loop raises ends the call at once.
RoundsEnd ==
    /\ (pc = "done" /\ result.err = "missing ids") =>
          (Len(obs.gaps) = 3 /\ Want \ Keys(merged) # {})
    /\ (pc = "done" /\ result.status = "ok" /\ obs.gaps # <<>>) =>
          Want \subseteq Keys(merged)
    /\ (pc = "done" /\ result.status = "raised" /\ stage.kind = "gap"
           /\ result.err # "missing ids") =>
          (loop.failed # <<>> /\ result.err = loop.failed[1].err)

\* C6: after the main pass, if requested ids are unresolved, gap-filling
\* rounds run over exactly the still-missing cues, at chunk sizes
\* min(50, chunk size) in chunked mode and min(50, number of ids missing
\* after the main request) in single-request mode, then 10, then 1; they stop
\* as soon as nothing is missing, and if ids are still missing after the last
\* size the call raises.
C6_GapRounds ==
    /\ []RoundsAsListed
    /\ [][AfterPassAsListed]_vars
    /\ []RoundsEnd

\* A single-request call in its first gap-filling round, one id missing of
\* three: the round's size is 1, whatever the chunk size given.
C6_Witness ==
    /\ env.mode = "nochunk" /\ pc = "loop"
    /\ stage.kind = "gap" /\ stage.round = 1
    /\ call.n = MaxCues /\ Cardinality(obs.gaps[1].ids) = 1
    /\ obs.gaps[1].sz = 1

\* C6 as stated: the first round's chunk size is min(50, chunkSize), the
\* second's 10, the third's 1, in either mode.
C6_Original ==
    \A k \in 1..Len(obs.gaps) :
        obs.gaps[k].sz = IF k = 1 THEN Min(50, call.chunk_size)
                         ELSE IF k = 2 THEN 10 ELSE 1

\* The call of the scenario: ScenarioCues cues at chunk size ScenarioChunk in
\* chunked mode.
InScenario ==
    /\ env.cls = "scenario" /\ env.mode = "chunked"
    /\ call.n = ScenarioCues /\ call.chunk_size = ScenarioChunk

\* The first wave of the main pass has ended and its one failure is the
\* process of chunk 2.
Chunk2FailedOnce ==
    /\ InScenario /\ stage.kind = "main"
    /\ pc = "loop" /\ loop.todo = {} /\ loop.waves = 1
    /\ Len(loop.failed) = 1 /\ loop.failed[1].ci = 2
    /\ loop.failed[1].err \in {"failed", "rate limited"}

\* The call has ended after a main pass in which the process of chunk 2 failed
\* once and nothing else went wrong: chunk 2 succeeded when invoked again, or
\* the loop raised its error.
EndedAfterOneFailure ==
    /\ InScenario /\ pc = "done" /\ stage.kind = "main"
    /\ \/ /\ result.status = "ok"
          /\ loop.waves = 2 /\ loop.pending = <<2>> /\ loop.failed = <<>>
       \/ /\ result.status = "raised"
          /\ loop.waves = 1 /\ Len(loop.failed) = 1 /\ loop.failed[1].ci = 2

\* The main pass of the scenario has two chunks, of ScenarioChunk cues and of
\* the rest.
TwoChunks ==
    (InScenario /\ stage.kind = "main") =>
        /\ Len(stage.chunks) = 2
        /\ Len(stage.chunks[1].part) = ScenarioChunk
        /\ Len(stage.chunks[2].part) = ScenarioCues - ScenarioChunk

\* After that failure the loop invokes chunk 2 again, the same chunk with all
\* its cues: on the fallback model if one is configured, else with two workers
\* if the failure was a rate limit at more than two workers; else it raises.
RetriesChunk2Whole ==
    Chunk2FailedOnce =>
        IF env.fallback_model \notin {"", PrimaryModel}
           \/ (loop.failed[1].err = "rate limited" /\ loop.workers > 2)
        THEN /\ pc' = "loop" /\ stage' = stage
             /\ loop'.waves = 2 /\ loop'.pending = <<2>>
             /\ loop'.fallback_done = (env.fallback_model \notin {"", PrimaryModel})
        ELSE pc' = "done" /\ result'.status = "raised"

\* A call that ends after that one failure has run no gap-filling round; if it
\* returned, chunk 2 was invoked twice and the map has every id.
NoGapRoundForFailure ==
    EndedAfterOneFailure =>
        /\ obs.gaps = <<>>
        /\ result.status = "ok" =>
              /\ Keys(result.map) = 1..ScenarioCues
              /\ obs.cnt[2].p + obs.cnt[2].f = 2 /\ obs.cnt[1].p + obs.cnt[1].f = 1
              /\ obs.ninv = 3

\* C7: with 523 cues and chunk size 400 the chunked pass creates exactly 2
\* chunks; if the backend process of chunk 2 fails once and an escalation is
\* available, exactly one retry wave re-invokes chunk 2 as a whole (its 123
\* cues, not re-chunked), no gap-filling round runs and the returned map
\* contains all 523 ids; with no escalation available the call raises.
C7_Scenario ==
    /\ []TwoChunks
    /\ [][RetriesChunk2Whole]_vars
    /\ []NoGapRoundForFailure

\* The scenario has ended with a map after chunk 2 failed once and succeeded
\* on the fallback model.
C7_Witness ==
    /\ EndedAfterOneFailure /\ result.status = "ok"
    /\ loop.fallback_done
    /\ Len(stage.chunks[2].part) = ScenarioCues - ScenarioChunk

\* C7 as stated: when the process of chunk 2 has failed once, exactly one
\* retry wave at chunk size at most 50 occurs and the returned map contains
\* all the ids.
C7_Original ==
    EndedAfterOneFailure =>
        /\ Len(obs.gaps) = 1 /\ obs.gaps[1].sz <= 50
        /\ result.status = "ok" /\ Keys(result.map) = 1..ScenarioCues

\* C8: in chunked mode, over any sequence of translate calls on one base path,
\* a chunk output file written by a call with one chunk size is never taken
\* as resumed cache, nor merged, by a call with another chunk size, and the
\* same for two different track tags: every file a call resumes or merges
\* was written under the call's own chunk size and tag.
C8_CacheKeyedBySizeAndTag ==
    env.mode = "chunked" =>
        /\ \A r \in obs.resumed : r.by = WrittenBy
        /\ (pc = "merge" /\ stage.kind = "main") =>
              \A k \in 1..Len(stage.chunks) :
                  Exists(stage.chunks[k].out_jsonl) => fs[stage.chunks[k].out_jsonl].by = WrittenBy

\* A second call with another chunk size or tag has returned, on a tree that
\* holds non-empty chunk files written by the first call, and resumed none.
C8_Witness ==
    /\ env.mode = "chunked" /\ env.resume
    /\ obs.calls = 2 /\ pc = "done" /\ result.status = "ok"
    /\ obs.prev.chunk_size # call.chunk_size
    /\ obs.prev.io_tag = call.io_tag
    /\ \E p \in DOMAIN fs : /\ NonEmpty(fs[p])
                            /\ fs[p].by = [chunk_size |-> obs.prev.chunk_size,
                                           io_tag |-> obs.prev.io_tag]
    /\ obs.resumed = {}

\* The files of the call held every requested id when it started: in chunked
\* mode (with resume) every chunk output file existed, in single-request mode
\* the cache file did.
CompleteAtStart ==
    /\ obs.calls >= 1 /\ env.resume
    /\ obs.start.all_exist
    /\ Want \subseteq obs.start.have

\* The call before this one had the same arguments and returned a map.
RepeatedCall ==
    /\ obs.prev.status = "ok"
    /\ obs.prev.n = call.n
    /\ obs.prev.chunk_size = call.chunk_size
    /\ obs.prev.io_tag = call.io_tag

\* What a call on a complete cache does: no backend invocation, and a map
\* with every requested id, the same map as the call before when that was
\* the same call.
ServedFromCache ==
    /\ obs.ninv = 0 /\ obs.sent = {}
    /\ pc \in {"merge", "done"}
    /\ pc = "done" =>
          /\ result.status = "ok"
          /\ Want \subseteq Keys(result.map)
          /\ RepeatedCall => result.map = obs.prev.map

\* C9: if the cache of a translate call is already complete (chunked mode with
\* resume: every chunk output file exists and together they contain all
\* requested ids; single-request mode: the cache file opens with the meta
\* line of the current format and contains all requested ids), the call
\* returns without invoking the backend, and repeated calls return identical
\* maps.
C9_CompleteCacheIdempotent ==
    (CompleteAtStart /\ (env.mode = "nochunk" => obs.start.compatible)) => ServedFromCache

\* The second of two equal calls has returned from a complete chunked cache.
C9_Witness ==
    /\ env.mode = "chunked"
    /\ CompleteAtStart /\ RepeatedCall
    /\ obs.calls = 2 /\ pc = "done" /\ result.status = "ok"
    /\ call.n = MaxCues /\ Len(stage.chunks) >= 2

\* C9 as stated: a single-request cache file that contains all requested ids
\* is enough, whatever its format.
C9_Original ==
    CompleteAtStart => ServedFromCache

\* The single-request cache file as the call found it: opening with the meta
\* line of the current format and holding all, or some but not all, of the
\* requested ids.
FullHitAtStart ==
    /\ env.mode = "nochunk" /\ obs.calls >= 1
    /\ obs.start.compatible
    /\ Want \subseteq obs.start.have

PartialHitAtStart ==
    /\ env.mode = "nochunk" /\ obs.calls >= 1
    /\ obs.start.compatible
    /\ obs.start.have \cap Want # {}
    /\ ~(Want \subseteq obs.start.have)

\* C10: in single-request mode a compatible cache file that contains some but
\* not all requested ids makes the call skip the main request and send only
\* the missing ids to the backend, in gap-filling chunks; a compatible cache
\* file that contains all requested ids makes the call return them with no
\* backend invocation.
C10_CacheHits ==
    /\ PartialHitAtStart =>
          /\ pc # "mainreq"
          /\ obs.sent \subseteq Want \ obs.start.have
          /\ obs.ninv > 0 => stage.kind = "gap"
          /\ pc = "loop" => (stage.kind = "gap" /\ StageIds \subseteq Want \ obs.start.have)
          /\ obs.gaps # <<>> => obs.gaps[1].ids = Want \ obs.start.have
    /\ FullHitAtStart =>
          /\ obs.ninv = 0 /\ obs.sent = {}
          /\ pc = "done" /\ result.status = "ok"
          /\ result.map = Restrict(_parse_jsonl_map(fs[NochunkCache(BasePath, call.io_tag)]), Want)
          /\ Keys(result.map) = Want

\* A call that found two of its three ids in the cache file has returned
\* after sending the third to the backend.
C10_Witness ==
    /\ PartialHitAtStart
    /\ pc = "done" /\ result.status = "ok"
    /\ call.n = MaxCues
    /\ obs.sent # {} /\ obs.ninv >= 1

\* C11: an invocation that exits non-zero with an authentication signature
\* in its output fails with the authentication error, whether or not the
\* output carries a rate-limit signature too, and no other failure is
\* reported as one; and when the escalation loop gives up, the error the call
\* raises is the one of the first failure captured in its last wave, so that
\* it is the authentication error when that first failure carried the
\* signature.
AuthClassified ==
    \A i \in 1..Len(loop.failed) :
        loop.failed[i].auth <=> (loop.failed[i].err = "auth")

FirstCapturedRaised ==
    (pc = "done" /\ result.status = "raised" /\ loop.failed # <<>>
        /\ result.err \notin {"missing ids", "missing chunk"}) =>
       /\ result.err = loop.failed[1].err
       /\ loop.failed[1].auth => result.err = "auth"

C11_AuthSurfaced == AuthClassified /\ FirstCapturedRaised

\* A wave of two chunks fails for both, the first to complete with the
\* authentication signature, and the call raises the authentication error.
C11_Witness ==
    /\ pc = "done" /\ result.status = "raised" /\ result.err = "auth"
    /\ Len(loop.failed) = 2
    /\ loop.failed[1].auth /\ ~loop.failed[2].auth

\* C11 as stated: whichever failure of the wave carried the authentication
\* signature, the error the call raises is the authentication error.
C11_Original ==
    (pc = "done" /\ result.status = "raised"
        /\ \E i \in 1..Len(loop.failed) : loop.failed[i].auth) =>
       result.err = "auth"

-----------------------------------------------------------------------------
(* Durable artifacts of an episode *)

\* C12: no partially written file is ever taken for a complete one: every
\* subtitle file that a run puts on its mux list was written in full by the
\* run that wrote it, also when an earlier run was killed in the middle of a
\* write.
C12_NoPartialAccepted ==
    \A p \in ep.subs : p \in DOMAIN disk => disk[p].whole

\* C13: the final output path gets a file only when the Muxer has returned
\* successfully and its temp file is renamed: at MUX there is no file at the
\* final path, a mux step that fails or is killed in its write leaves none
\* there (what it wrote is at the temp path), and a file appears at the final
\* path only in the step that ends a successful mux, which leaves no temp
\* file behind.
C13_MuxStarts == ep.pc = "mux" => out_mkv \notin DOMAIN disk
C13_MuxStep ==
    /\ (ep.pc = "mux" /\ ep'.pc # "mux" /\ ep'.status # "ok") =>
          /\ out_mkv \notin DOMAIN disk'
          /\ \A p \in DOMAIN disk' \ DOMAIN disk : p = tmp_out
    /\ (out_mkv \notin DOMAIN disk /\ out_mkv \in DOMAIN disk') =>
          /\ ep.pc = "mux" /\ ep'.pc = "done" /\ ep'.status = "ok"
          /\ ep'.nmux = ep.nmux + 1
          /\ disk'[out_mkv].size > 0
          /\ tmp_out \notin DOMAIN disk'
C13_FinalOnlyByRename == []C13_MuxStarts /\ [][C13_MuxStep]_vars

\* A run was killed while the Muxer wrote: the temp file is there, the final
\* path is empty.
C13_Witness ==
    /\ ep.status = "killed" /\ ep.pc = "killed"
    /\ tmp_out \in DOMAIN disk
    /\ out_mkv \notin DOMAIN disk

\* C14: a 0-byte file at a cache path is never taken for a cache hit.
\*  - The stage whose file it is removes or overwrites it: after the stage's
\*    step the path is empty or holds a non-empty file.
\*  - Nothing is built on one: the mux list holds no 0-byte file, the Muxer
\*    is reached only with a video that passes the probe, an episode ends ok
\*    only with a non-empty final output, and a cached video of 0 bytes sends
\*    _task_video to the download.
\*  - A translate call that finds a chunk output file of 0 bytes runs that
\*    chunk again, one that finds a 0-byte single-request cache sends the
\*    main request, and a call returns only with non-empty files.
ZeroOnDisk(d, p) == p \in DOMAIN d /\ d[p].size = 0
ZeroInTree(t, p) == p \in DOMAIN t /\ ~NonEmpty(t[p])

\* The step is the one of the stage that looks for a cached file at `p`.
StageStepAt(p) ==
    LET main(at) == ep.pc \in at /\ ep'.pc # ep.pc
    IN  /\ ep'.status # "killed"
        /\ CASE p = out_mkv -> main({"start"})
             [] p = mp4_path -> ep.video = "check" /\ ep'.video # "check"
             [] p = vtt_es -> main({"es_vtt"})
             [] p = srt_es -> main({"es_srt"}) \/ (~env.force_asr /\ main({"asr"}))
             [] p = srt_es_raw -> main({"asr"})
             [] p = srt_es_asr -> env.force_asr /\ main({"asr"})
             [] p = vtt_en -> (ep.en = "vtt" /\ ep'.en # "vtt") \/ (env.en_vtt /\ main({"fa_en"}))
             [] p = srt_en -> \/ ep.en = "conv" /\ ep'.en # "conv"
                              \/ main({"fa_en_srt"})
                              \/ /\ ~env.force_asr /\ ~env.en_vtt /\ env.translate_en_if_missing
                                 /\ ep.en = "start" /\ ep'.en # "start"
             [] p = srt_en_asr -> env.force_asr /\ ep.en = "start" /\ ep'.en # "start"
             [] p \in {srt_ru, srt_bi, srt_bi_full} ->
                    ~env.force_asr /\ env.with_ru /\ ep.ru = "start" /\ ep'.ru # "start"
             [] p \in {srt_ru_asr, srt_bi_asr, srt_bi_full_asr} ->
                    env.force_asr /\ ep.ru = "start" /\ ep'.ru # "start"

\* The subtitle files the precheck looks at.
PrecheckPaths ==
    {srt_es, srt_en, srt_ru, srt_bi, srt_bi_full}
    \cup (IF env.force_asr
          THEN {srt_es_asr, srt_en_asr, srt_ru_asr, srt_bi_asr, srt_bi_full_asr}
          ELSE {})

C14_EpisodeStep ==
    /\ \A p \in CachePaths :
          (ZeroOnDisk(disk, p) /\ StageStepAt(p)) => ~ZeroOnDisk(disk', p)
    /\ (ep.pc = "start" /\ ep'.pc # "start" /\ ~_is_nonempty_file(disk, out_mkv)) =>
          \A p \in PrecheckPaths : ~ZeroOnDisk(disk', p)
    /\ (ZeroOnDisk(disk, mp4_path) /\ ep.video = "check" /\ ep'.video # "check"
          /\ ep'.status # "killed") => ep'.video = "download"

C14_TranslateStep ==
    (env.cls # "episode" /\ call' # call) =>
       IF env.mode = "nochunk"
       THEN ZeroInTree(fs, NochunkCache(BasePath, call'.io_tag)) =>
               obs'.hit = "none" /\ pc' = "mainreq"
       ELSE \A k \in 1..Len(stage'.chunks) :
               ZeroInTree(fs, stage'.chunks[k].out_jsonl) =>
                  /\ k \in SeqToSet(loop'.pending)
                  /\ \A r \in obs'.resumed : r.path # stage'.chunks[k].out_jsonl

C14_NothingBuiltOnZero ==
    IF env.cls = "episode"
    THEN /\ \A p \in ep.subs : ~ZeroOnDisk(disk, p)
         /\ ep.pc = "mux" => is_valid_mp4(disk, mp4_path)
         /\ ep.status = "ok" => _is_nonempty_file(disk, out_mkv)
    ELSE (pc = "done" /\ result.status = "ok") =>
            IF env.mode = "nochunk"
            THEN ~ZeroInTree(fs, NochunkCache(BasePath, call.io_tag))
            ELSE \A k \in 1..Len(stage.chunks) :
                    ~ZeroInTree(fs, stage.chunks[k].out_jsonl)

C14_ZeroNeverHit ==
    /\ []C14_NothingBuiltOnZero
    /\ [][C14_EpisodeStep /\ C14_TranslateStep]_vars

\* A chunked call with resume on found its only chunk's output file there
\* with no row in it and did not resume from it, so the file had 0 bytes;
\* the chunk was run again and the call returned.
C14_Witness ==
    /\ env.cls = "multi" /\ env.mode = "chunked" /\ env.resume
    /\ pc = "done" /\ result.status = "ok"
    /\ Len(stage.chunks) = 1
    /\ obs.start.all_exist /\ obs.start.have = {}
    /\ obs.resumed = {}
    /\ obs.ninv > 0
    /\ \A k \in 1..Len(stage.chunks) : ~ZeroInTree(fs, stage.chunks[k].out_jsonl)

\* C15: when the final output is there and non-empty as the processing of an
\* episode starts, the first step ends the episode as done, recorded ok, with
\* the tree as it was and without a call to the Resolver, the downloader, the
\* Transcriber, the translation backend or the Muxer.
C15_StartStep ==
    (ep.pc = "start" /\ ep.status = "running" /\ _is_nonempty_file(disk, out_mkv)
        /\ ep' # ep) =>
       /\ ep'.pc = "done" /\ ep'.status = "ok"
       /\ ep'.nres = 0 /\ ep'.ndl = 0 /\ ep'.nasr = 0 /\ ep'.ntr = 0 /\ ep'.nmux = 0
       /\ ep'.video = "idle" /\ ep'.en = "idle" /\ ep'.ru = "idle"
       /\ disk' = disk
RequiredTracks ==
    IF env.force_asr
    THEN {srt_es_asr, srt_en_asr, srt_ru_asr, srt_bi_asr, srt_bi_full_asr}
    ELSE {srt_es}
         \cup (IF env.translate_en_if_missing THEN {srt_en} ELSE {})
         \cup (IF env.with_ru THEN {srt_ru, srt_bi, srt_bi_full} ELSE {})
LongEnough(d, p) == d[mp4_path].dur * MinRatioDen >= d[p].dur * MinRatioNum

\* C16: when a run starts with no final output, with every subtitle file of
\* the enabled tracks there and non-empty and with a valid cached video whose
\* duration is at least 70% of the end of every cached subtitle timeline, its
\* first step goes to MUX, without a call to the Resolver, in every track
\* configuration.
C16_StartStep ==
    (/\ ep.pc = "start" /\ ep.status = "running" /\ ep' # ep
     /\ out_mkv \notin DOMAIN disk
     /\ \A p \in RequiredTracks : _is_nonempty_file(disk, p)
     /\ is_valid_mp4(disk, mp4_path)
     /\ \A p \in RequiredTracks \cup ({srt_es} \cap DOMAIN disk) : LongEnough(disk, p))
    => (ep'.pc = "mux" /\ ep'.nres = 0)
C16_StraightToMux == [][C16_StartStep]_vars

\* The scenario of C17: every download yields the short video, the cached
\* video is that one, and the ES subtitle file ends at SubEnd.
ShortVideoLongSubs ==
    /\ env.vdurs = {ShortVideo}
    /\ is_valid_mp4(disk, mp4_path) /\ disk[mp4_path].dur = ShortVideo
    /\ _is_nonempty_file(disk, srt_es) /\ disk[srt_es].dur = SubEnd

\* C17: with a 40 s video, ES subtitles that end at 3600 s and a re-download
\* that yields the same video, the guard starts one forced re-download, its
\* second comparison fails the episode without another one, and the episode
\* is never at MUX.
C17_GuardStep ==
    /\ (ShortVideoLongSubs /\ ep.pc = "guard" /\ ep'.pc # "guard") =>
          (ep'.video = "check" /\ ep'.force /\ ep'.nforce = ep.nforce + 1)
    /\ (ShortVideoLongSubs /\ ep.pc = "guard2" /\ ep'.pc # "guard2") =>
          (ep'.pc = "unwind" /\ ep'.nforce = ep.nforce /\ ep'.ndl = ep.ndl)
C17_NotAtMux == ShortVideoLongSubs => ep.pc # "mux"
C17_GuardFailsEpisode == []C17_NotAtMux /\ [][C17_GuardStep]_vars

\* C18: _task_video called without force on a cached file that passes the
\* probe returns without a download and leaves the tree as it is; on one that
\* fails the probe it removes the file and goes to the download.  The
\* download step is one call of the downloader and ends the task: with a
\* file that passes the probe, or raising, and it raises whenever the file at
\* the cache path does not pass.  So no task downloads twice: a run makes at
\* most one download per call of _task_video.
C18_VideoStep ==
    /\ (ep.video = "check" /\ ~ep.force /\ ep'.video # "check" /\ ep'.status # "killed") =>
          IF is_valid_mp4(disk, mp4_path)
          THEN /\ ep'.ndl = ep.ndl /\ disk' = disk
               /\ ep'.video \in {"ok", "idle"}
               /\ ep.pc = "wait_video" => ep'.pc = ep.vret
          ELSE /\ mp4_path \notin DOMAIN disk'
               /\ ep'.video = "download" /\ ep'.ndl = ep.ndl
    /\ (ep.video = "download" /\ ep'.video # "download" /\ ep'.status # "killed") =>
          /\ ep'.ndl = ep.ndl + 1
          /\ ep'.video \in {"ok", "raised", "idle"}
          /\ (ep'.video = "raised" \/ (ep.pc = "wait_video" /\ ep'.pc = "unwind"))
                <=> ~is_valid_mp4(disk', mp4_path)
C18_OnePerCall == ep.ndl <= (IF ep.nres > 0 THEN 1 ELSE 0) + ep.nforce
C18_VideoRetry == []C18_OnePerCall /\ [][C18_VideoStep]_vars

\* A second run made one download, with no forced one, and failed with a
\* file at the cache path that does not pass the probe.
C18_Witness ==
    /\ ep.run = 2 /\ ep.status = "failed"
    /\ ep.ndl = 1 /\ ep.nforce = 0
    /\ _is_nonempty_file(disk, mp4_path) /\ ~is_valid_mp4(disk, mp4_path)

\* C19 as stated: an episode whose Transcriber failed with a recoverable
\* message has, when it ends, made one forced re-download and run the
\* Transcriber a second time.
C19_Original ==
    (ep.status = "failed" /\ ep.asr \in {"recoverable", "second"}) =>
       (ep.nasr = 2 /\ ep.nforce >= 1)

\* C19: a first Transcriber failure with a recoverable message starts one
\* forced re-download of the video, and the Transcriber runs once more when
\* that re-download has returned (a re-download that raises fails the episode
\* before the second attempt).  A failure of the second attempt, or a first
\* failure with another message, goes to the except clause with no download
\* started.  The Transcriber runs at most twice in an episode, and the
\* second run is always preceded by a recoverable failure of the first.
C19_AsrStep ==
    /\ (ep.pc = "asr_run" /\ ep'.pc # "asr_run" /\ ep'.status # "killed") =>
          /\ ep'.nasr = ep.nasr + 1
          /\ ep'.asr = "recoverable" =>
                /\ ep'.pc = "wait_video" /\ ep'.vret = "asr_rerun"
                /\ ep'.video = "check" /\ ep'.force
                /\ ep'.nforce = ep.nforce + 1
          /\ ep'.asr = "fatal" =>
                ep'.pc = "unwind" /\ ep'.nforce = ep.nforce /\ ep'.video = ep.video
    /\ (ep.pc = "wait_video" /\ ep.vret = "asr_rerun" /\ ep'.pc # "wait_video"
          /\ ep'.status # "killed") =>
          \/ ep'.pc = "asr_rerun" /\ is_valid_mp4(disk', mp4_path)
          \/ ep'.pc = "unwind" /\ ep'.nasr = 1
    /\ (ep.pc = "asr_rerun" /\ ep'.pc # "asr_rerun" /\ ep'.status # "killed") =>
          /\ ep'.nasr = ep.nasr + 1
          /\ ep'.pc \in {"asr_canon", "unwind"}
          /\ ep'.pc = "unwind" =>
                ep'.asr = "second" /\ ep'.nforce = ep.nforce /\ ep'.video = ep.video
C19_AtMostTwice ==
    /\ ep.status # "none" => ep.nasr <= 2
    /\ (ep.status # "none" /\ ep.nasr = 2) => ep.asr \in {"recoverable", "second"}
C19_OneRetry == []C19_AtMostTwice /\ [][C19_AsrStep]_vars

\* The Transcriber failed with a recoverable message, the video was
\* downloaded again, and the second attempt failed too: the episode has
\* failed after two runs of the Transcriber and one forced re-download.
C19_Witness ==
    /\ ep.status = "failed" /\ ep.asr = "second"
    /\ ep.nasr = 2 /\ ep.nforce = 1 /\ ep.ndl >= 1

\* C20: when the translation tasks have ended, a failed EN task, or a failed
\* RU-family task with RU enabled but not required, leaves its files off the
\* mux list and the episode goes on to MUX; the episode fails at this point
\* only when RU is required and the RU-family task failed.
C20_JoinStep ==
    (ep.pc = "tr_join" /\ ep'.pc # "tr_join" /\ ep'.status # "killed") =>
       /\ ep.en = "raised" => EnTarget \notin ep'.subs
       /\ ep.ru = "raised" => {RuTarget, BiTarget, BiFullTarget} \cap ep'.subs = {}
       /\ (ep.en = "raised" /\ ep.ru # "raised") => ep'.pc = "mux"
       /\ (ep.ru = "raised" /\ env.with_ru /\ ~env.require_ru) => ep'.pc = "mux"
       /\ ep'.pc = "unwind" => (ep.ru = "raised" /\ env.require_ru)
C20_OptionalTolerated == [][C20_JoinStep]_vars

-----------------------------------------------------------------------------
\* Barriers of an episode

\* C21: MUX never starts before the video download and both translation
\* tasks have ended.  While the main thread stands at MUX no task of the
\* episode runs and no file but the Muxer's temp file is being written; the
\* step that takes the main thread from the translation join to MUX is taken
\* with the EN task ended (returned, or raised and tolerated), the RU-family
\* task returned, and the video task not running; and the Muxer is invoked
\* in such a state only.
C21_NoTaskRuns ==
    /\ ep.video = "idle" /\ ep.en = "idle" /\ ep.ru = "idle"
    /\ \A w \in Writing : w[1] = tmp_out
C21_AtMux == ep.pc = "mux" => C21_NoTaskRuns
C21_ToMuxStep ==
    /\ (ep.pc = "tr_join" /\ ep'.pc = "mux") =>
          /\ ep.en \in {"ok", "none", "raised"}
          /\ ep.ru \in {"ok", "none"}
          /\ ep.video = "idle"
          /\ is_valid_mp4(disk, mp4_path)
    /\ (ep.pc # "mux" /\ ep'.pc = "mux") => ep.pc \in {"start", "tr_join"}
    /\ ep'.nmux > ep.nmux => (ep.pc = "mux" /\ C21_NoTaskRuns)
C21_MuxAfterJoins == []C21_AtMux /\ [][C21_ToMuxStep]_vars

\* The pools ran side by side (video download while the ES subtitles were
\* fetched, then EN and RU translations), the EN translation failed and was
\* tolerated, and the main thread stands at MUX.
C21_Witness ==
    /\ ep.pc = "mux" /\ env.parallel /\ env.es_vtt /\ ~env.force_asr
    /\ env.translate_en_if_missing /\ env.with_ru
    /\ ep.ndl = 1 /\ ep.ntr >= 3
    /\ srt_en \notin ep.subs /\ srt_ru \in ep.subs

-----------------------------------------------------------------------------
(* The run of download_selector over the assets of a selector *)

\* Assets of a selector, and the largest jobs_episodes, in the enumerated runs.
MaxEpisodes == 3
MaxJobs == 2

\* The states of _process_one an exception can be raised in, in the order
\* the episode passes them.
EpisodeStates == <<"precheck", "resolve", "fetch", "subs", "translate", "mux">>

StateIndex(s) == CHOOSE k \in 1..Len(EpisodeStates) : EpisodeStates[k] = s
InEpisode(s) == \E k \in 1..Len(EpisodeStates) : EpisodeStates[k] = s

\* The inputs of a run: the flags, the number of assets, and whether the
\* selector names a season (line 474) or one episode, which is one asset.
SeasonEnvs ==
    {e \in [cls : {"season"}, n : 1..MaxEpisodes, parallel : BOOLEAN,
            jobs_episodes : 0..MaxJobs, is_season : BOOLEAN] :
        e.is_season \/ e.n = 1}

\* The locals of download_selector, lines 473-476, and the telemetry rows of
\* the episodes.
\*   main       where the main thread stands: "run", "index", "returned",
\*              "raised"
\*   eps        each _process_one call: "queued", one of EpisodeStates, or
\*              how it ended: "ok" (returned None), "failed" (returned the
\*              message), "raised"
\*   telemetry  the status of end_episode, "" before it
\*   taken      the episodes whose result the main thread has read
\*   failures   the list `failures`, as episode numbers
\*   exit       the value returned, -1 before the return
StartSeason(n) ==
    [main |-> "run",
     eps |-> [i \in 1..n |-> "queued"],
     telemetry |-> [i \in 1..n |-> ""],
     taken |-> {},
     failures |-> <<>>,
     exit |-> -1]

InitSeason ==
    /\ env \in SeasonEnvs
    /\ fs = <<>>
    /\ pc = "idle"
    /\ call = NoCall
    /\ stage = NoStage
    /\ loop = NoLoop
    /\ merged = EmptyMap
    /\ result = NoResult
    /\ obs = NoObs
    /\ ep = NoEpisode
    /\ disk = <<>>
    /\ season = StartSeason(env.n)
    /\ calc = NoCalc

\* What a season step leaves alone.
svars == <<env, fs, pc, call, stage, loop, merged, result, obs, ep, disk, calc>>

\* Line 1275: the pool is used for more than one asset of a parallel run.
Pooled == env.parallel /\ env.n > 1
\* Line 1276.
workers == IF env.jobs_episodes > 1 THEN env.jobs_episodes ELSE 1

InProcess == {i \in 1..env.n : InEpisode(season.eps[i])}
Ended(i) == season.eps[i] \in {"ok", "failed", "raised"}

\* A _process_one call begins, lines 484-493: in a free worker of the pool,
\* which takes the submitted calls in order, or in the main thread's loop,
\* lines 1287-1290, once the result of the call before has been read.
BeginEpisode ==
    /\ season.main = "run"
    /\ \E i \in 1..env.n :
          /\ season.eps[i] = "queued"
          /\ \A j \in 1..(i - 1) : season.eps[j] # "queued"
          /\ IF Pooled THEN Cardinality(InProcess) < workers
             ELSE \A j \in 1..(i - 1) : j \in season.taken
          /\ season' = [season EXCEPT !.eps[i] = EpisodeStates[1]]
    /\ UNCHANGED svars

\* The except clause raising again in every run.
CaughtRaises(s, i) == [s EXCEPT !.telemetry[i] = "failed", !.eps[i] = "raised"]

\* The except clause of _process_one, lines 1266-1273: the failure is
\* recorded; a season run returns the message, any other run raises again.
Caught(s, i) ==
    [s EXCEPT !.telemetry[i] = "failed",
              !.eps[i] = IF env.is_season THEN "failed" ELSE "raised"]

\* The return of _process_one, lines 1262-1265.
Finished(s, i) == [s EXCEPT !.telemetry[i] = "ok", !.eps[i] = "ok"]

\* One state of an episode, lines 494-1261: it raises, or the episode passes
\* to its next state; PRECHECK and RESOLVE can find the final output and end
\* the episode (lines 500-503, 548-553), PRECHECK can go straight to MUX
\* (lines 505-533), and MUX ends it.
EpisodeStep ==
    /\ \E i \in InProcess :
          LET k == StateIndex(season.eps[i])
          IN  \/ season' = Caught(season, i)
              \/ /\ k < Len(EpisodeStates)
                 /\ season' = [season EXCEPT !.eps[i] = EpisodeStates[k + 1]]
              \/ /\ season.eps[i] \in {"precheck", "resolve", "mux"}
                 /\ season' = Finished(season, i)
              \/ /\ season.eps[i] = "precheck"
                 /\ season' = [season EXCEPT !.eps[i] = "mux"]
    /\ UNCHANGED svars

\* fut.result() of a completed future, lines 1282-1285, or the value of the
\* call in the loop, lines 1288-1290: a message goes to `failures`; an
\* exception leaves download_selector.
TakeResult ==
    /\ season.main = "run"
    /\ \E i \in 1..env.n :
          /\ Ended(i) /\ i \notin season.taken
          /\ season' = [season EXCEPT
                !.taken = @ \cup {i},
                !.failures = IF season.eps[i] = "failed" THEN Append(@, i) ELSE @,
                !.main = IF season.eps[i] = "raised" THEN "raised" ELSE @]
    /\ UNCHANGED svars

\* Every result is read: on to the index, lines 1292-1305, whose failure is
\* logged.
BuildIndex ==
    /\ season.main = "run"
    /\ season.taken = 1..env.n
    /\ season' = [season EXCEPT !.main = "index"]
    /\ UNCHANGED svars

\* The exit status with a run that never fails.
ReturnZero ==
    /\ season.main = "index"
    /\ season' = [season EXCEPT !.main = "returned", !.exit = 0]
    /\ UNCHANGED svars

\* Lines 1306-1308.
Return ==
    /\ season.main = "index"
    /\ season' = [season EXCEPT !.main = "returned",
                                !.exit = IF season.failures # <<>> THEN 1 ELSE 0]
    /\ UNCHANGED svars

NextSeason == BeginEpisode \/ EpisodeStep \/ TakeResult \/ BuildIndex \/ Return

SpecSeason == InitSeason /\ [][NextSeason]_vars

\* The threads of a run keep running and every call an episode makes comes
\* back, with a value or an exception.
SpecSeasonFair == SpecSeason /\ WF_vars(NextSeason)

-----------------------------------------------------------------------------
\* The season run

\* C22: in a season run an exception raised at any state of one episode
\* never keeps another episode from being processed.  No _process_one call
\* of a season run raises and the main thread never leaves the run with an
\* exception; the step in which an episode fails records the failure,
\* touches no other episode and leaves the main thread where it is; and
\* every run gets to its return with each of its episodes ended, ok or
\* failed, and each failed one on the list of failures.
SeasonRun == env.cls = "season" /\ env.is_season
C22_NothingEscapes ==
    SeasonRun => /\ season.main # "raised"
                 /\ \A i \in 1..env.n : season.eps[i] # "raised"
C22_FailStep ==
    SeasonRun =>
      \A i \in 1..env.n :
         (InEpisode(season.eps[i]) /\ ~InEpisode(season'.eps[i])) =>
            /\ season'.eps[i] \in {"ok", "failed"}
            /\ season'.telemetry[i] = season'.eps[i]
            /\ \A j \in (1..env.n) \ {i} : season'.eps[j] = season.eps[j]
            /\ season'.main = season.main
C22_AllEnded ==
    /\ season.main = "returned"
    /\ \A i \in 1..env.n :
          /\ season.eps[i] \in {"ok", "failed"}
          /\ season.eps[i] = "failed" <=> (\E k \in 1..Len(season.failures) : season.failures[k] = i)
C22_SiblingsProcessed ==
    /\ []C22_NothingEscapes
    /\ [][C22_FailStep]_vars
    /\ (SeasonRun ~> C22_AllEnded)

\* A pooled season run of three episodes on two workers has returned: the
\* first episode failed, the other two are ok.
C22_Witness ==
    /\ SeasonRun /\ Pooled /\ workers = 2 /\ env.n = 3
    /\ season.main = "returned"
    /\ season.eps = <<"failed", "ok", "ok">>

\* C23: the exit status a run returns is 0 if and only if no episode of the
\* run was recorded as failed, on the list of failures and in the telemetry
\* alike; a status is returned once, at the end, and is 0 or 1; a run that
\* an exception leaves returns no status.
C23_Recorded == {i \in 1..env.n : season.telemetry[i] = "failed"}
C23_ExitIffNoFailure ==
    env.cls = "season" =>
       /\ season.main = "returned" =>
             /\ season.exit \in {0, 1}
             /\ season.exit = 0 <=> C23_Recorded = {}
             /\ season.exit = 0 <=> season.failures = <<>>
       /\ season.main # "returned" => season.exit = -1

\* A sequential run of two episodes has returned 1: the first episode is ok,
\* the second failed.
C23_Witness ==
    /\ env.cls = "season" /\ ~Pooled /\ env.n = 2
    /\ season.main = "returned" /\ season.exit = 1
    /\ season.eps = <<"ok", "failed">>

-----------------------------------------------------------------------------
(* Reset layers *)

\* _RESET_LAYER_ALLOWED, lines 107-115.
_RESET_LAYER_ALLOWED == {"subs-es", "subs-en", "subs-ru", "subs-refs", "video", "mkv", "catalog"}

\* The body of the loop with the rule for subs-refs left out.
ExpandOnceNoRefs(expanded) ==
    LET e1 == IF "video" \in expanded
              THEN expanded \cup {"subs-es", "subs-en", "subs-ru", "subs-refs", "mkv"}
              ELSE expanded
        e2 == IF "subs-es" \in e1 THEN e1 \cup {"subs-en", "subs-ru", "subs-refs", "mkv"} ELSE e1
        e3 == IF "subs-en" \in e2 THEN e2 \cup {"mkv"} ELSE e2
        e4 == IF "subs-ru" \in e3 THEN e3 \cup {"mkv"} ELSE e3
    IN  e4

\* The body of the loop of _expand_reset_layers, lines 141-150: the tests
\* one after the other, each on what the ones before it left.
ExpandOnce(expanded) ==
    LET e1 == IF "video" \in expanded
              THEN expanded \cup {"subs-es", "subs-en", "subs-ru", "subs-refs", "mkv"}
              ELSE expanded
        e2 == IF "subs-es" \in e1 THEN e1 \cup {"subs-en", "subs-ru", "subs-refs", "mkv"} ELSE e1
        e3 == IF "subs-en" \in e2 THEN e2 \cup {"mkv"} ELSE e2
        e4 == IF "subs-ru" \in e3 THEN e3 \cup {"mkv"} ELSE e3
        e5 == IF "subs-refs" \in e4 THEN e4 \cup {"mkv"} ELSE e4
    IN  e5

\* A call of _expand_reset_layers, lines 136-138.
\*   user      the argument
\*   expanded, changed   the locals
\*   at        "loop" or "returned"
\*   passes    iterations of the loop so far
\*   first     the argument and the value of the call before, when this call
\*             expands what that one returned
StartExpand(user, first) ==
    [fn |-> "_expand_reset_layers", user |-> user, expanded |-> user,
     changed |-> TRUE, at |-> "loop", passes |-> 0, first |-> first]

\* Every set of layers _normalize_reset_layers lets through, lines 118-130.
InitReset ==
    /\ env = [cls |-> "reset"]
    /\ fs = <<>>
    /\ pc = "idle"
    /\ call = NoCall
    /\ stage = NoStage
    /\ loop = NoLoop
    /\ merged = EmptyMap
    /\ result = NoResult
    /\ obs = NoObs
    /\ ep = NoEpisode
    /\ disk = <<>>
    /\ season = NoSeason
    /\ calc \in {StartExpand(u, <<>>) : u \in SUBSET _RESET_LAYER_ALLOWED}

\* What the application of a function leaves alone.
cvars == <<env, fs, pc, call, stage, loop, merged, result, obs, ep, disk, season>>

\* One iteration of the loop, lines 139-151.
ExpandPass ==
    /\ calc.fn = "_expand_reset_layers" /\ calc.at = "loop" /\ calc.changed
    /\ LET e == ExpandOnce(calc.expanded)
       IN  calc' = [calc EXCEPT !.expanded = e, !.changed = (e # calc.expanded),
                                !.passes = @ + 1]
    /\ UNCHANGED cvars

\* Line 152.
ExpandReturn ==
    /\ calc.fn = "_expand_reset_layers" /\ calc.at = "loop" /\ ~calc.changed
    /\ calc' = [calc EXCEPT !.at = "returned"]
    /\ UNCHANGED cvars

\* The function is called on the set it returned.
ExpandAgain ==
    /\ calc.fn = "_expand_reset_layers" /\ calc.at = "returned" /\ calc.first = <<>>
    /\ calc' = StartExpand(calc.expanded, <<calc.user, calc.expanded>>)
    /\ UNCHANGED cvars

NextReset == ExpandPass \/ ExpandReturn \/ ExpandAgain

SpecReset == InitReset /\ [][NextReset]_vars

-----------------------------------------------------------------------------
\* Reset-layer expansion

\* C24: reset-layer expansion is the closure of the user's layers under the
\* derivation relation.  What _expand_reset_layers returns contains the
\* user's layers, contains every layer derived from a layer it contains,
\* contains nothing that is neither a user layer nor derived from one, and
\* is returned unchanged when it is expanded again.
C24_Derives ==
    ({"video"} \X {"subs-es", "subs-en", "subs-ru", "subs-refs", "mkv"})
    \cup ({"subs-es"} \X {"subs-en", "subs-ru", "subs-refs", "mkv"})
    \cup ({"subs-en", "subs-ru", "subs-refs"} \X {"mkv"})
C24_ExpansionIsClosure ==
    (calc.fn = "_expand_reset_layers" /\ calc.at = "returned") =>
       /\ calc.user \subseteq calc.expanded
       /\ \A d \in C24_Derives : d[1] \in calc.expanded => d[2] \in calc.expanded
       /\ \A l \in calc.expanded :
             l \in calc.user \/ \E u \in calc.user : <<u, l>> \in C24_Derives
       /\ "catalog" \in calc.expanded <=> "catalog" \in calc.user
       /\ calc.first # <<>> => calc.expanded = calc.first[2]

\* subs-refs and catalog were expanded to subs-refs, catalog and mkv, and the
\* expansion of that set has returned.
C24_Witness ==
    /\ calc.fn = "_expand_reset_layers" /\ calc.at = "returned"
    /\ calc.first # <<>>
    /\ calc.first[1] = {"subs-refs", "catalog"}
    /\ calc.expanded = {"subs-refs", "catalog", "mkv"}

-----------------------------------------------------------------------------
(* The request rows of a chunk *)

\* The longest text of a row of one field, and the longest field of a row
\* of two.
MaxText == 4
MaxField == 2

\* Characters: a text is a sequence of them.  BS is the backslash, TAB, CR
\* and LF the tab, the carriage return and the newline; "n" and "t" are the
\* letters the escapes are written with.
BS == "BS"
TAB == "TAB"
CR == "CR"
LF == "LF"
Chars == {BS, TAB, CR, LF, "n", "t"}

Texts(n) == UNION {[1..k -> Chars] : k \in 0..n}

\* str.replace of one character by a string.
RECURSIVE ReplaceChar(_, _, _)
ReplaceChar(s, c, r) ==
    IF s = <<>> THEN <<>>
    ELSE (IF Head(s) = c THEN r ELSE <<Head(s)>>) \o ReplaceChar(Tail(s), c, r)

\* _tsv_escape without the doubling of the backslash.
EscapeNoBackslash(value) ==
    ReplaceChar(ReplaceChar(ReplaceChar(value, TAB, <<BS, "t">>), CR, <<>>), LF, <<BS, "n">>)

\* _tsv_escape, lines 89-96: the four replacements in their order.
_tsv_escape(value) ==
    ReplaceChar(ReplaceChar(ReplaceChar(ReplaceChar(value,
        BS, <<BS, BS>>), TAB, <<BS, "t">>), CR, <<>>), LF, <<BS, "n">>)

\* _tsv_unescape, lines 99-123.
RECURSIVE _tsv_unescape(_)
_tsv_unescape(s) ==
    IF s = <<>> THEN <<>>
    ELSE IF Head(s) # BS THEN <<Head(s)>> \o _tsv_unescape(Tail(s))
    ELSE IF Len(s) = 1 THEN <<BS>>
    ELSE LET nxt == s[2]
             ch == IF nxt = "n" THEN LF
                   ELSE IF nxt = "t" THEN TAB
                   ELSE IF nxt = BS THEN BS
                   ELSE nxt
         IN  <<ch>> \o _tsv_unescape(SubSeq(s, 3, Len(s)))

\* "\t".join of the fields.
RECURSIVE JoinTab(_)
JoinTab(fields) ==
    IF Len(fields) = 0 THEN <<>>
    ELSE IF Len(fields) = 1 THEN fields[1]
    ELSE fields[1] \o <<TAB>> \o JoinTab(Tail(fields))

\* The fields of a row: a row of one text of up to MaxText characters, or of
\* two of up to MaxField.
RowFields ==
    {<<t>> : t \in Texts(MaxText)} \cup (Texts(MaxField) \X Texts(MaxField))

\* A row of the request of a chunk is written and read back.
\*   fields   the texts of the row
\*   escaped  the fields as _tsv_escape returns them
\*   row      the line written
\*   back     the escaped fields as _tsv_unescape returns them
InitTsv ==
    /\ env = [cls |-> "tsv"]
    /\ fs = <<>>
    /\ pc = "idle"
    /\ call = NoCall
    /\ stage = NoStage
    /\ loop = NoLoop
    /\ merged = EmptyMap
    /\ result = NoResult
    /\ obs = NoObs
    /\ ep = NoEpisode
    /\ disk = <<>>
    /\ season = NoSeason
    /\ calc \in {[fn |-> "_tsv_escape", at |-> "start", fields |-> f,
                  escaped |-> <<>>, row |-> <<>>, back |-> <<>>] : f \in RowFields}

\* The fields are escaped, lines 345-349 and 355.
TsvEscape ==
    /\ calc.fn = "_tsv_escape" /\ calc.at = "start"
    /\ calc' = [calc EXCEPT !.at = "escaped",
                  !.escaped = [i \in 1..Len(calc.fields) |-> _tsv_escape(calc.fields[i])]]
    /\ UNCHANGED cvars

\* The row is written, lines 342-352 and 354-356.
TsvWrite ==
    /\ calc.fn = "_tsv_escape" /\ calc.at = "escaped"
    /\ calc' = [calc EXCEPT !.at = "written", !.row = JoinTab(calc.escaped) \o <<LF>>]
    /\ UNCHANGED cvars

\* The escaped fields are unescaped.
TsvUnescape ==
    /\ calc.fn = "_tsv_escape" /\ calc.at = "written"
    /\ calc' = [calc EXCEPT !.at = "unescaped",
                  !.back = [i \in 1..Len(calc.escaped) |-> _tsv_unescape(calc.escaped[i])]]
    /\ UNCHANGED cvars

NextTsv == TsvEscape \/ TsvWrite \/ TsvUnescape

SpecTsv == InitTsv /\ [][NextTsv]_vars

-----------------------------------------------------------------------------
\* Request rows

\* C25: the escaped form of a field holds no raw tab, newline or carriage
\* return; unescaping it gives the text back without its carriage returns;
\* and the written row, cut at its tabs, is exactly the escaped fields, its
\* only newline being the one that ends it.
RECURSIVE C25_SplitTab(_, _)
C25_SplitTab(s, cur) ==
    IF s = <<>> THEN <<cur>>
    ELSE IF Head(s) = TAB THEN <<cur>> \o C25_SplitTab(Tail(s), <<>>)
    ELSE C25_SplitTab(Tail(s), Append(cur, Head(s)))
C25_Raw(s) == {k \in 1..Len(s) : s[k] \in {TAB, LF, CR}}
C25_FieldsSurvive ==
    calc.fn = "_tsv_escape" =>
       /\ calc.at # "start" =>
             \A i \in 1..Len(calc.escaped) : C25_Raw(calc.escaped[i]) = {}
       /\ calc.at \in {"written", "unescaped"} =>
             /\ Len(calc.row) >= 1 /\ calc.row[Len(calc.row)] = LF
             /\ {k \in 1..Len(calc.row) : calc.row[k] = LF} = {Len(calc.row)}
             /\ C25_SplitTab(SubSeq(calc.row, 1, Len(calc.row) - 1), <<>>) = calc.escaped
       /\ calc.at = "unescaped" =>
             /\ Len(calc.back) = Len(calc.fields)
             /\ \A i \in 1..Len(calc.fields) :
                   calc.back[i] = ReplaceChar(calc.fields[i], CR, <<>>)

\* A row of two fields came back: one is a backslash before the letter t,
\* the other a tab before a newline.
C25_Witness ==
    /\ calc.fn = "_tsv_escape" /\ calc.at = "unescaped"
    /\ calc.fields = <<(<<BS, "t">>), (<<TAB, LF>>)>>
    /\ calc.back = calc.fields

-----------------------------------------------------------------------------
(* SRT files *)

\* The longest text of the cue of a one-cue list, and the longest text in a
\* list of two cues.
MaxSrtText == 3
MaxSrtField == 1

SP == "SP"
StrDigits == <<"0", "1", "2", "3", "4", "5", "6", "7", "8", "9">>
IsDigit(c) == \E k \in 1..Len(StrDigits) : StrDigits[k] = c
DigitVal(c) == (CHOOSE k \in 1..Len(StrDigits) : StrDigits[k] = c) - 1

\* str(n) of a natural number.
RECURSIVE Dec(_)
Dec(n) == IF n < 10 THEN <<StrDigits[n + 1]>>
          ELSE Dec(n \div 10) \o <<StrDigits[(n % 10) + 1]>>

\* The format specs 02d and 03d.
RECURSIVE ZeroPad(_, _)
ZeroPad(s, w) == IF Len(s) >= w THEN s ELSE ZeroPad(<<"0">> \o s, w)

\* int(s) of a string of digits.
RECURSIVE IntOf(_)
IntOf(s) == IF s = <<>> THEN 0
            ELSE IntOf(SubSeq(s, 1, Len(s) - 1)) * 10 + DigitVal(s[Len(s)])

\* _fmt_ms, srt.py 8-17.
_fmt_ms(ms0) ==
    LET ms == IF ms0 < 0 THEN 0 ELSE ms0
        hh == ms \div 3600000
        r1 == ms - hh * 3600000
        mm == r1 \div 60000
        r2 == r1 - mm * 60000
        ss == r2 \div 1000
        r3 == r2 - ss * 1000
    IN  ZeroPad(Dec(hh), 2) \o <<":">> \o ZeroPad(Dec(mm), 2) \o <<":">>
        \o ZeroPad(Dec(ss), 2) \o <<",">> \o ZeroPad(Dec(r3), 3)

\* "\n".join of a list of strings.
RECURSIVE JoinLines(_)
JoinLines(lines) ==
    IF Len(lines) = 0 THEN <<>>
    ELSE IF Len(lines) = 1 THEN lines[1]
    ELSE lines[1] \o <<LF>> \o JoinLines(Tail(lines))

\* The list `out` of cues_to_srt, srt.py 21-26, from cue number idx on.
RECURSIVE OutLines(_, _)
OutLines(cues, idx) ==
    IF cues = <<>> THEN <<>>
    ELSE <<Dec(idx),
           _fmt_ms(cues[1].start_ms) \o <<SP, "-", "-", ">", SP>> \o _fmt_ms(cues[1].end_ms),
           cues[1].text,
           <<>>
         >> \o OutLines(Tail(cues), idx + 1)

\* cues_to_srt, srt.py 20-27.
cues_to_srt(cues) == JoinLines(OutLines(cues, 1))

\* The two replacements of parse_srt, srt_parse.py 17: CR LF and then every
\* CR left become LF.
RECURSIVE NormalizeNewlines(_)
NormalizeNewlines(s) ==
    IF s = <<>> THEN <<>>
    ELSE IF Head(s) = CR
    THEN (IF Len(s) > 1 /\ s[2] = LF
          THEN <<LF>> \o NormalizeNewlines(SubSeq(s, 3, Len(s)))
          ELSE <<LF>> \o NormalizeNewlines(Tail(s)))
    ELSE <<Head(s)>> \o NormalizeNewlines(Tail(s))

\* str.split("\n").
RECURSIVE SplitLines(_, _)
SplitLines(s, cur) ==
    IF s = <<>> THEN <<cur>>
    ELSE IF Head(s) = LF THEN <<cur>> \o SplitLines(Tail(s), <<>>)
    ELSE SplitLines(Tail(s), Append(cur, Head(s)))

\* str.strip().
Whitespace == {SP, TAB, LF, CR}
RECURSIVE LStrip(_)
LStrip(s) == IF s # <<>> /\ Head(s) \in Whitespace THEN LStrip(Tail(s)) ELSE s
RECURSIVE RStrip(_)
RStrip(s) == IF s # <<>> /\ s[Len(s)] \in Whitespace
             THEN RStrip(SubSeq(s, 1, Len(s) - 1)) ELSE s
Strip(s) == RStrip(LStrip(s))

\* str.isdigit().
IsDigitLine(l) == l # <<>> /\ \A k \in 1..Len(l) : IsDigit(l[k])

\* \d{2}:\d{2}:\d{2},\d{3} at position p of l.
IsTs(l, p) ==
    /\ p >= 1 /\ p + 11 <= Len(l)
    /\ \A k \in {0, 1, 3, 4, 6, 7, 9, 10, 11} : IsDigit(l[p + k])
    /\ l[p + 2] = ":" /\ l[p + 5] = ":" /\ l[p + 8] = ","

\* The whitespace characters of l from position p on.
RECURSIVE WsRun(_, _)
WsRun(l, p) == IF p <= Len(l) /\ l[p] \in Whitespace THEN 1 + WsRun(l, p + 1) ELSE 0

\* _TS_RE.match, srt_parse.py 7: where the second timestamp starts, 0 when
\* the line does not match.
TsMatch(l) ==
    IF ~IsTs(l, 1) THEN 0
    ELSE LET a == WsRun(l, 13)
             p == 13 + a
         IN  IF a = 0 \/ p + 2 > Len(l) \/ SubSeq(l, p, p + 2) # <<"-", "-", ">">> THEN 0
             ELSE LET b == WsRun(l, p + 3)
                      q == p + 3 + b
                  IN  IF b >= 1 /\ IsTs(l, q) THEN q ELSE 0

\* _parse_ts reading the hours field as minutes.
ParseTsNoHours(ts) ==
    (IntOf(SubSeq(ts, 1, 2)) + IntOf(SubSeq(ts, 4, 5))) * 60000
    + IntOf(SubSeq(ts, 7, 8)) * 1000 + IntOf(SubSeq(ts, 10, 12))

\* _parse_ts, srt_parse.py 10-13, of a string of the shape IsTs.
_parse_ts(ts) ==
    ((IntOf(SubSeq(ts, 1, 2)) * 60 + IntOf(SubSeq(ts, 4, 5))) * 60
     + IntOf(SubSeq(ts, 7, 8))) * 1000 + IntOf(SubSeq(ts, 10, 12))

\* The first line from i on that is blank, or not blank; Len(lines) + 1 when
\* there is none.
RECURSIVE SkipWhile(_, _, _)
SkipWhile(lines, i, blank) ==
    IF i <= Len(lines) /\ ((Strip(lines[i]) = <<>>) = blank)
    THEN SkipWhile(lines, i + 1, blank) ELSE i

\* The loop of parse_srt, srt_parse.py 20-44, from line i on.
RECURSIVE ParseFrom(_, _, _)
ParseFrom(lines, i, cues) ==
    LET i1 == SkipWhile(lines, i, TRUE)
    IN  IF i1 > Len(lines) THEN cues
        ELSE LET i2 == IF /\ i1 + 1 <= Len(lines)
                          /\ IsDigitLine(Strip(lines[i1]))
                          /\ TsMatch(Strip(lines[i1 + 1])) # 0
                       THEN i1 + 1 ELSE i1
                 l == Strip(lines[i2])
                 q == TsMatch(l)
             IN  IF q = 0 THEN ParseFrom(lines, SkipWhile(lines, i2, FALSE), cues)
                 ELSE LET j == SkipWhile(lines, i2 + 1, FALSE)
                          cue == [start_ms |-> _parse_ts(SubSeq(l, 1, 12)),
                                  end_ms |-> _parse_ts(SubSeq(l, q, q + 11)),
                                  text |-> Strip(JoinLines(SubSeq(lines, i2 + 1, j - 1)))]
                      IN  ParseFrom(lines, j, Append(cues, cue))

\* parse_srt, srt_parse.py 16-45.
parse_srt(srt_text) == ParseFrom(SplitLines(NormalizeNewlines(srt_text), <<>>), 1, <<>>)

\* Cue texts: letters, digits, blanks and line ends.
SrtChars == {"a", "1", SP, LF, CR}
SrtTexts(n) == UNION {[1..k -> SrtChars] : k \in 0..n}

\* Timestamps in milliseconds: the start, the two of the line
\* 00:01:02,500 --> 00:01:05,000, the last one of two hour digits
\* (99:59:59,999) and the first one past it.
SrtTimes == {0, 62500, 65000, 359999999, 360000000}

\* Lists of cues: none, one cue with any timestamps and text, or two cues.
CueLists ==
    {<<>>}
    \cup {<<c>> : c \in [start_ms : SrtTimes, end_ms : SrtTimes, text : SrtTexts(MaxSrtText)]}
    \cup {<<[start_ms |-> 0, end_ms |-> 62500, text |-> t1],
            [start_ms |-> 62500, end_ms |-> 65000, text |-> t2]>> :
             t1 \in SrtTexts(MaxSrtField), t2 \in SrtTexts(MaxSrtField)}

\* A list of cues is written as SRT, read back and written again.
\*   cues    the list
\*   srt     cues_to_srt(cues)
\*   parsed  parse_srt(srt)
\*   again   cues_to_srt(parsed)
InitSrt ==
    /\ env = [cls |-> "srt"]
    /\ fs = <<>>
    /\ pc = "idle"
    /\ call = NoCall
    /\ stage = NoStage
    /\ loop = NoLoop
    /\ merged = EmptyMap
    /\ result = NoResult
    /\ obs = NoObs
    /\ ep = NoEpisode
    /\ disk = <<>>
    /\ season = NoSeason
    /\ calc \in {[fn |-> "cues_to_srt", at |-> "start", cues |-> c,
                  srt |-> <<>>, parsed |-> <<>>, again |-> <<>>] : c \in CueLists}

SrtWrite ==
    /\ calc.fn = "cues_to_srt" /\ calc.at = "start"
    /\ calc' = [calc EXCEPT !.at = "written", !.srt = cues_to_srt(calc.cues)]
    /\ UNCHANGED cvars

SrtParse ==
    /\ calc.fn = "cues_to_srt" /\ calc.at = "written"
    /\ calc' = [calc EXCEPT !.at = "parsed", !.parsed = parse_srt(calc.srt)]
    /\ UNCHANGED cvars

SrtWriteAgain ==
    /\ calc.fn = "cues_to_srt" /\ calc.at = "parsed"
    /\ calc' = [calc EXCEPT !.at = "rewritten", !.again = cues_to_srt(calc.parsed)]
    /\ UNCHANGED cvars

NextSrt == SrtWrite \/ SrtParse \/ SrtWriteAgain

SpecSrt == InitSrt /\ [][NextSrt]_vars

-----------------------------------------------------------------------------
\* SRT round trip

\* The timestamps of two hour digits, and the line 00:01:02,500 --> 00:01:05,000.
C26_InRange(cues) ==
    \A k \in 1..Len(cues) : /\ cues[k].start_ms >= 0 /\ cues[k].start_ms <= 359999999
                            /\ cues[k].end_ms >= 0 /\ cues[k].end_ms <= 359999999
C26_Line ==
    <<"0", "0", ":", "0", "1", ":", "0", "2", ",", "5", "0", "0", SP, "-", "-", ">", SP,
      "0", "0", ":", "0", "1", ":", "0", "5", ",", "0", "0", "0">>
C26_LineKept ==
    \A k \in 1..Len(calc.cues) :
       (calc.cues[k].start_ms = 62500 /\ calc.cues[k].end_ms = 65000) =>
          /\ OutLines(calc.cues, 1)[4 * (k - 1) + 2] = C26_Line
          /\ calc.at \in {"parsed", "rewritten"} =>
                /\ calc.parsed[k].start_ms = 62500 /\ calc.parsed[k].end_ms = 65000
          /\ calc.at = "rewritten" => OutLines(calc.parsed, 1)[4 * (k - 1) + 2] = C26_Line

\* C26 as stated: for every list of cues with timestamps from 0 to
\* 99:59:59,999 and any text, parsing the SRT form gives the list back.
C26_Original ==
    (calc.fn = "cues_to_srt" /\ calc.at \in {"parsed", "rewritten"} /\ C26_InRange(calc.cues))
       => calc.parsed = calc.cues

\* A text parse_srt gives back: it has no carriage return, neither starts
\* nor ends with white space, and none of its lines is blank.
C26_Kept(text) ==
    /\ \A k \in 1..Len(text) : text[k] # CR
    /\ Strip(text) = text
    /\ text # <<>> => \A k \in 1..Len(SplitLines(text, <<>>)) :
                         Strip(SplitLines(text, <<>>)[k]) # <<>>

\* C26, amended: for every list of cues with timestamps from 0 to
\* 99:59:59,999 whose texts have no carriage return, no white space at
\* either end and no blank line, parsing the SRT form gives the list back
\* and writing the parsed list gives the same bytes; the timing line
\* 00:01:02,500 --> 00:01:05,000 is written for 62500 and 65000 ms, parses
\* to them and is written again unchanged.
C26_RoundTrip ==
    (calc.fn = "cues_to_srt" /\ calc.at # "start" /\ C26_InRange(calc.cues)
     /\ \A k \in 1..Len(calc.cues) : C26_Kept(calc.cues[k].text)) =>
       /\ C26_LineKept
       /\ calc.at \in {"parsed", "rewritten"} => calc.parsed = calc.cues
       /\ calc.at = "rewritten" => calc.again = calc.srt

\* The cue from 00:01:02,500 to 99:59:59,999 with a text of two lines went
\* through the round trip.
C26_Witness ==
    /\ calc.fn = "cues_to_srt" /\ calc.at = "rewritten"
    /\ Len(calc.cues) = 1
    /\ calc.cues[1] = [start_ms |-> 62500, end_ms |-> 359999999, text |-> <<"a", LF, "1">>]
    /\ calc.parsed = calc.cues /\ calc.again = calc.srt

-----------------------------------------------------------------------------
(* The track policy *)

\* The longest list of --sub entries.
MaxEntries == 2

\* policy.py 14-22.
_TRACKS == {"es", "en", "ru", "ru-dual", "refs"}
_MODES == {"off", "on", "require"}
_DEFAULTS == [t \in _TRACKS |-> IF t = "ru" THEN "require" ELSE "on"]

\* What stands left and right of the "=" of an entry: the names, a name in
\* capitals between blanks, and a word that is no name.
RawTracks == _TRACKS \cup {" RU ", "bad"}
RawModes == _MODES \cup {" On ", "maybe"}

\* strip().lower() of these words.
StripLower(w) == IF w = " RU " THEN "ru"
                 ELSE IF w = " On " THEN "on"
                 ELSE IF w = " " THEN ""
                 ELSE w

\* An entry: a text without "=" (the empty one, a blank, a word), or a text
\* with one, given by its two sides.
SubEntries ==
    [eq : {FALSE}, text : {"", " ", "es"}]
    \cup [eq : {TRUE}, track_raw : RawTracks, mode_raw : RawModes]

SubLists == UNION {[1..k -> SubEntries] : k \in 0..MaxEntries}

\* A call of parse_track_policy, policy.py 39-40.
\*   i      the entry the loop stands at
\*   modes  the local `modes`
\*   at     "loop", "returned" or "raised"
InitPolicy ==
    /\ env = [cls |-> "policy"]
    /\ fs = <<>>
    /\ pc = "idle"
    /\ call = NoCall
    /\ stage = NoStage
    /\ loop = NoLoop
    /\ merged = EmptyMap
    /\ result = NoResult
    /\ obs = NoObs
    /\ ep = NoEpisode
    /\ disk = <<>>
    /\ season = NoSeason
    /\ calc \in {[fn |-> "parse_track_policy", at |-> "loop", raw_entries |-> l,
                  i |-> 1, modes |-> _DEFAULTS] : l \in SubLists}

\* The entry is skipped (0), refused (-1) or taken (1), policy.py 42-54.
EntryVerdict(raw) ==
    IF ~raw.eq THEN (IF StripLower(raw.text) = "" THEN 0 ELSE -1)
    ELSE IF StripLower(raw.track_raw) \notin _TRACKS THEN -1
    ELSE IF StripLower(raw.mode_raw) \notin _MODES THEN -1
    ELSE 1

\* One iteration of the loop, policy.py 41-55.
PolicyEntry ==
    /\ calc.fn = "parse_track_policy" /\ calc.at = "loop"
    /\ calc.i <= Len(calc.raw_entries)
    /\ LET raw == calc.raw_entries[calc.i]
           v == EntryVerdict(raw)
       IN  calc' = IF v = -1 THEN [calc EXCEPT !.at = "raised"]
                   ELSE IF v = 0 THEN [calc EXCEPT !.i = @ + 1]
                   ELSE [calc EXCEPT !.i = @ + 1,
                            !.modes[StripLower(raw.track_raw)] = StripLower(raw.mode_raw)]
    /\ UNCHANGED cvars

\* The end of the function without the promotion of ru.
PolicyReturnAsIs ==
    /\ calc.fn = "parse_track_policy" /\ calc.at = "loop"
    /\ calc.i > Len(calc.raw_entries)
    /\ calc' = [calc EXCEPT !.at = "returned"]
    /\ UNCHANGED cvars

\* The promotion of ru and the return, policy.py 57-62.
PolicyReturn ==
    /\ calc.fn = "parse_track_policy" /\ calc.at = "loop"
    /\ calc.i > Len(calc.raw_entries)
    /\ LET ru_dual_mode == calc.modes["ru-dual"]
       IN  calc' = [calc EXCEPT !.at = "returned",
                       !.modes["ru"] = IF ru_dual_mode # "off" /\ calc.modes["ru"] = "off"
                                       THEN (IF ru_dual_mode = "require" THEN "require" ELSE "on")
                                       ELSE @]
    /\ UNCHANGED cvars

NextPolicy == PolicyEntry \/ PolicyReturn

SpecPolicy == InitPolicy /\ [][NextPolicy]_vars

-----------------------------------------------------------------------------
\* Track policy

\* The entries of the list that are not blank; whether an entry names a
\* track and a mode; the mode the last entry naming a track gives it, or its
\* default.
C27_Blank(raw) == ~raw.eq /\ StripLower(raw.text) = ""
C27_WellFormed(raw) ==
    raw.eq /\ StripLower(raw.track_raw) \in _TRACKS /\ StripLower(raw.mode_raw) \in _MODES
C27_Naming(l, t) == {k \in 1..Len(l) : l[k].eq /\ StripLower(l[k].track_raw) = t}
C27_Asked(l, t) ==
    IF C27_Naming(l, t) = {} THEN (IF t = "ru" THEN "require" ELSE "on")
    ELSE StripLower(l[CHOOSE k \in C27_Naming(l, t) : \A j \in C27_Naming(l, t) : j <= k].mode_raw)
C27_Modes ==
    /\ calc.modes["ru-dual"] # "off" => calc.modes["ru"] # "off"
    /\ \A t \in _TRACKS \ {"ru"} : calc.modes[t] = C27_Asked(calc.raw_entries, t)
    /\ calc.modes["ru"] =
          IF C27_Asked(calc.raw_entries, "ru") # "off" THEN C27_Asked(calc.raw_entries, "ru")
          ELSE IF C27_Asked(calc.raw_entries, "ru-dual") = "off" THEN "off"
          ELSE IF C27_Asked(calc.raw_entries, "ru-dual") = "require" THEN "require"
          ELSE "on"

\* C27 as stated: a returned policy has the modes described, and a list with
\* an entry without "=", with an unknown track or with an unknown mode is
\* not accepted.
C27_Original ==
    (calc.fn = "parse_track_policy" /\ calc.at = "returned") =>
       /\ C27_Modes
       /\ \A k \in 1..Len(calc.raw_entries) : C27_WellFormed(calc.raw_entries[k])

\* C27, amended: blank entries are skipped.  A returned policy has ru on or
\* required whenever ru-dual is not off (ru is promoted only from off, to
\* require when ru-dual is require and to on otherwise) and gives every
\* other track the mode of the last entry naming it, or its default; a list
\* is accepted only if each of its entries that is not blank has a "=", a
\* known track and a known mode, and is refused at its first entry that has
\* not.
C27_PolicyInvariant ==
    calc.fn = "parse_track_policy" =>
       /\ calc.at = "returned" =>
             /\ C27_Modes
             /\ \A k \in 1..Len(calc.raw_entries) :
                   C27_Blank(calc.raw_entries[k]) \/ C27_WellFormed(calc.raw_entries[k])
       /\ calc.at = "raised" =>
             /\ ~C27_Blank(calc.raw_entries[calc.i])
             /\ ~C27_WellFormed(calc.raw_entries[calc.i])
             /\ \A k \in 1..(calc.i - 1) :
                   C27_Blank(calc.raw_entries[k]) \/ C27_WellFormed(calc.raw_entries[k])
       /\ calc.at = "loop" => ENABLED (PolicyEntry \/ PolicyReturn)

\* ru=off and then ru-dual=require were accepted: ru is required.
C27_Witness ==
    /\ calc.fn = "parse_track_policy" /\ calc.at = "returned"
    /\ Len(calc.raw_entries) = 2
    /\ calc.raw_entries[1] = [eq |-> TRUE, track_raw |-> "ru", mode_raw |-> "off"]
    /\ calc.raw_entries[2] = [eq |-> TRUE, track_raw |-> "ru-dual", mode_raw |-> "require"]
    /\ calc.modes["ru"] = "require"

-----------------------------------------------------------------------------
(* The RU-family tracks of an episode: subtitle_tracks/orchestrator.py *)

\* The three tracks in the order build_ru_tracks takes them, and their ids,
\* models.py 11-16.
RuKinds == <<"ru", "refs", "ru_dual">>
TrackKey(kind, force_asr) ==
    IF ~force_asr THEN kind
    ELSE IF kind = "ru" THEN "ru_asr"
    ELSE IF kind = "refs" THEN "refs_asr"
    ELSE "ru_dual_asr"
RuKeys(force_asr) == {TrackKey(RuKinds[k], force_asr) : k \in 1..Len(RuKinds)}

\* A call of build_ru_tracks, orchestrator.py 33-62.
\*   enabled   enabled_track_ids
\*   files     the subtitle file of each track: "absent", "empty" (zero
\*             bytes), "cached" (there and not empty before the call) or
\*             "written" (by this call)
\*   misses    the tracks for which the phrase cache leaves cues to translate
\*   ru_map    whether the local ru_map holds a translation
\*   consulted, invoked   the tracks for which split_for_track and the
\*             translation backend were called
\*   out       the tracks returned
\*   at        "start", "ru", "refs", "dual", "collect", "returned", "raised"
BuildRuCalls ==
    UNION {[fn : {"build_ru_tracks"}, at : {"start"}, force_asr : {fa},
            enabled : SUBSET RuKeys(fa),
            files : [RuKeys(fa) -> {"absent", "empty", "cached"}],
            misses : SUBSET {TrackKey("ru", fa), TrackKey("refs", fa)},
            ru_map : {FALSE}, consulted : {{}}, invoked : {{}}, out : {<<>>}] :
           fa \in BOOLEAN}

InitBuildRu ==
    /\ env = [cls |-> "build_ru"]
    /\ fs = <<>>
    /\ pc = "idle"
    /\ call = NoCall
    /\ stage = NoStage
    /\ loop = NoLoop
    /\ merged = EmptyMap
    /\ result = NoResult
    /\ obs = NoObs
    /\ ep = NoEpisode
    /\ disk = <<>>
    /\ season = NoSeason
    /\ calc \in BuildRuCalls

ru_key == TrackKey("ru", calc.force_asr)
refs_key == TrackKey("refs", calc.force_asr)
dual_key == TrackKey("ru_dual", calc.force_asr)

\* orchestrator.py 52-53.
BuildStart ==
    /\ calc.fn = "build_ru_tracks" /\ calc.at = "start"
    /\ calc' = [calc EXCEPT !.at = IF calc.enabled = {} THEN "returned" ELSE "ru"]
    /\ UNCHANGED cvars

\* The phrase cache is asked for the cues of a track and the backend for
\* the ones it does not hold, orchestrator.py 72-93 and 97-120: the call
\* with the two recorded, and whether the backend can raise.
Looked(c, key) ==
    [c EXCEPT !.consulted = @ \cup {key},
              !.invoked = IF key \in c.misses THEN @ \cup {key} ELSE @]

\* The builders, builders.py 68-78 and 81-95: an empty file is removed, a
\* file that is there is left, and one is written otherwise.
Built(c, key) == [c EXCEPT !.files[key] = IF @ = "cached" THEN "cached" ELSE "written"]

\* The RU track, orchestrator.py 67-94.
BuildRu ==
    /\ calc.fn = "build_ru_tracks" /\ calc.at = "ru"
    /\ IF ru_key \notin calc.enabled \/ calc.files[ru_key] = "cached"
       THEN calc' = [calc EXCEPT !.at = "refs"]
       ELSE LET c == Looked(calc, ru_key)
            IN  \/ /\ ru_key \in calc.misses
                   /\ calc' = [c EXCEPT !.at = "raised"]
                \/ calc' = [Built(c, ru_key) EXCEPT !.at = "refs", !.ru_map = TRUE]
    /\ UNCHANGED cvars

\* The refs track, orchestrator.py 96-121.
BuildRefs ==
    /\ calc.fn = "build_ru_tracks" /\ calc.at = "refs"
    /\ IF refs_key \notin calc.enabled
       THEN calc' = [calc EXCEPT !.at = "dual"]
       ELSE LET c == Looked(calc, refs_key)
            IN  \/ /\ refs_key \in calc.misses
                   /\ calc' = [c EXCEPT !.at = "raised"]
                \/ calc' = [Built(c, refs_key) EXCEPT !.at = "dual"]
    /\ UNCHANGED cvars

\* The ES+RU track, orchestrator.py 123-129 and builders.py 98-114: without
\* a translation in memory the RU file is read, and has to be there.
BuildDual ==
    /\ calc.fn = "build_ru_tracks" /\ calc.at = "dual"
    /\ calc' = IF dual_key \notin calc.enabled \/ calc.files[dual_key] = "cached"
               THEN [calc EXCEPT !.at = "collect"]
               ELSE IF ~calc.ru_map /\ calc.files[ru_key] = "absent"
               THEN [calc EXCEPT !.at = "raised", !.files[dual_key] = "absent"]
               ELSE [Built(calc, dual_key) EXCEPT !.at = "collect"]
    /\ UNCHANGED cvars

\* orchestrator.py 131-135.
BuildReturn ==
    /\ calc.fn = "build_ru_tracks" /\ calc.at = "collect"
    /\ calc' = [calc EXCEPT !.at = "returned",
                  !.out = SelectSeq([k \in 1..Len(RuKinds) |-> TrackKey(RuKinds[k], calc.force_asr)],
                                    LAMBDA key : key \in calc.enabled)]
    /\ UNCHANGED cvars

NextBuildRu == BuildStart \/ BuildRu \/ BuildRefs \/ BuildDual \/ BuildReturn

SpecBuildRu == InitBuildRu /\ [][NextBuildRu]_vars

-----------------------------------------------------------------------------
\* Cached RU-family tracks

\* C28: for every enabled RU-family track whose file is cached and not
\* empty, build_ru_tracks asks neither the phrase cache nor the translation
\* backend for that track and leaves the file as it is, and the track is in
\* the result when the call returns.
C28_CachedEnabled ==
    {key \in calc.enabled : calc.files[key] = "cached"}
C28_CachedTrackReused ==
    calc.fn = "build_ru_tracks" =>
       \A key \in C28_CachedEnabled :
             /\ key \notin calc.consulted /\ key \notin calc.invoked
             /\ calc.at = "returned" => \E k \in 1..Len(calc.out) : calc.out[k] = key

-----------------------------------------------------------------------------
\* The default subtitle track

\* The display title each subtitle file is put on the mux list with,
\* download.py 296-318, 328-340, 932-936, 1114-1118, and the title passed as
\* default_subtitle_title, 319, 341, 1122 and 1193.
TrackTitle(p) ==
    IF p = srt_bi THEN "ES+RU refs"
    ELSE IF p = srt_bi_asr THEN "ES+RU refs/ASR"
    ELSE IF p = srt_bi_full THEN "ES+RU"
    ELSE IF p = srt_bi_full_asr THEN "ES+RU/ASR"
    ELSE IF p = srt_es_asr THEN "ASR"
    ELSE IF p \in {srt_en_asr, srt_ru_asr} THEN "MT/ASR"
    ELSE IF p = srt_ru THEN "MT"
    ELSE "RTVE"
default_subtitle_title == IF env.force_asr THEN "ES+RU refs/ASR" ELSE "ES+RU refs"

\* C29: whenever the Muxer is about to be invoked, on the PRECHECK shortcut
\* or on the full path, the default title it is handed is the title of a
\* track of the mux list; an episode whose default track is not available
\* raises instead of reaching the Muxer.
C29_DefaultOnList ==
    (env.cls = "episode" /\ ep.pc = "mux") =>
       \E p \in ep.subs : TrackTitle(p) = default_subtitle_title

-----------------------------------------------------------------------------
(* chunk_cues, statement by statement: codex_batch.py 309-360 *)

MaxChunkCues == 5
MaxChunkSize == 4

\* A call of chunk_cues.
\*   cues        the cue ids, in order
\*   chunk_size  the parameter chunk_cues
\*   io_tag      the parameter io_tag, "" for a tag that is refused
\*   i           the loop variable of `for i in range(0, len(cues), chunk_cues)`
\*   out         the chunks appended so far: number and cues
\*   written     the numbers of the chunks whose input files are written
\*   at          "start", "loop", "returned" or "raised"
ChunkCalls ==
    [fn : {"chunk_cues"}, at : {"start"},
     cues : {[k \in 1..n |-> k] : n \in 0..MaxChunkCues},
     chunk_size : (0 - 1)..MaxChunkSize,
     io_tag : {"", "ru"},
     i : {0}, out : {<<>>}, written : {{}}]

InitChunk ==
    /\ env = [cls |-> "chunk_cues"]
    /\ fs = <<>>
    /\ pc = "idle"
    /\ call = NoCall
    /\ stage = NoStage
    /\ loop = NoLoop
    /\ merged = EmptyMap
    /\ result = NoResult
    /\ obs = NoObs
    /\ ep = NoEpisode
    /\ disk = <<>>
    /\ season = NoSeason
    /\ calc \in ChunkCalls

\* Lines 317-320: the two tests of the parameters.
ChunkStart ==
    /\ calc.fn = "chunk_cues" /\ calc.at = "start"
    /\ calc' = [calc EXCEPT !.at = IF calc.chunk_size <= 0 \/ calc.io_tag = ""
                                   THEN "raised" ELSE "loop"]
    /\ UNCHANGED cvars

\* The body of the loop with the chunks numbered from 0.
ChunkStepFromZero ==
    /\ calc.fn = "chunk_cues" /\ calc.at = "loop"
    /\ calc.i < Len(calc.cues)
    /\ LET part == SubSeq(calc.cues, calc.i + 1,
                          Min(calc.i + calc.chunk_size, Len(calc.cues)))
           idx == calc.i \div calc.chunk_size
       IN  calc' = [calc EXCEPT !.out = Append(@, [idx |-> idx, part |-> part]),
                                !.written = @ \cup {idx},
                                !.i = @ + calc.chunk_size]
    /\ UNCHANGED cvars

\* Lines 325-359: one turn of the loop, `part = cues[i : i + chunk_cues]`,
\* `idx = (i // chunk_cues) + 1`, the chunk appended and its files written.
ChunkStep ==
    /\ calc.fn = "chunk_cues" /\ calc.at = "loop"
    /\ calc.i < Len(calc.cues)
    /\ LET part == SubSeq(calc.cues, calc.i + 1,
                          Min(calc.i + calc.chunk_size, Len(calc.cues)))
           idx == (calc.i \div calc.chunk_size) + 1
       IN  calc' = [calc EXCEPT !.out = Append(@, [idx |-> idx, part |-> part]),
                                !.written = @ \cup {idx},
                                !.i = @ + calc.chunk_size]
    /\ UNCHANGED cvars

\* Line 360, when the range is exhausted.
ChunkReturn ==
    /\ calc.fn = "chunk_cues" /\ calc.at = "loop"
    /\ calc.i >= Len(calc.cues)
    /\ calc' = [calc EXCEPT !.at = "returned"]
    /\ UNCHANGED cvars

NextChunk == ChunkStart \/ ChunkStep \/ ChunkReturn

SpecChunk == InitChunk /\ [][NextChunk]_vars

-----------------------------------------------------------------------------
\* The chunks of a cue list

C30_Ceil(n, c) == CHOOSE k \in 0..n : k * c >= n /\ (k - 1) * c < n

RECURSIVE C30_Concat(_, _)
C30_Concat(out, k) == IF k = 0 THEN <<>> ELSE C30_Concat(out, k - 1) \o out[k].part

\* C30: chunk_cues with n cues and a chunk size c > 0 returns ceil(n/c)
\* chunks numbered 1..ceil(n/c) in order, each of at most c cues, whose
\* concatenation is the cue list; with c <= 0 it raises and has written no
\* file.
C30_ChunksPartition ==
    calc.fn = "chunk_cues" =>
       /\ calc.at = "returned" =>
             /\ calc.chunk_size > 0
             /\ Len(calc.out) = C30_Ceil(Len(calc.cues), calc.chunk_size)
             /\ \A k \in 1..Len(calc.out) :
                   /\ calc.out[k].idx = k
                   /\ Len(calc.out[k].part) <= calc.chunk_size
             /\ C30_Concat(calc.out, Len(calc.out)) = calc.cues
       /\ calc.chunk_size <= 0 =>
             /\ calc.at \in {"start", "raised"}
             /\ calc.written = {} /\ calc.out = <<>>

\* A list that does not divide evenly has been split into several chunks.
C30_Witness ==
    /\ calc.fn = "chunk_cues" /\ calc.at = "returned"
    /\ Len(calc.out) >= 2
    /\ Len(calc.out[Len(calc.out)].part) < calc.chunk_size

\* A chunk size that is not positive has been refused.
C30_Refused ==
    /\ calc.fn = "chunk_cues" /\ calc.at = "raised" /\ calc.chunk_size <= 0

-----------------------------------------------------------------------------
\* The sizes of the gap-filling rounds

\* The number of cues a request of the main pass holds at most: the chunk
\* size in chunked mode, every cue in single-request mode.
C31_MainSize == IF env.mode = "chunked" THEN call.chunk_size ELSE call.n

\* C31: with a chunk size of at least 1, the chunk size of every gap-filling
\* round is at most the size of the main pass and at most the chunk size of
\* the round before it.
C31_SizesShrink ==
    (env.cls \in {"single", "multi", "scenario"} /\ C31_MainSize >= 1) =>
       \A k \in 1..Len(obs.gaps) :
          /\ obs.gaps[k].sz <= C31_MainSize
          /\ k > 1 => obs.gaps[k].sz <= obs.gaps[k - 1].sz

-----------------------------------------------------------------------------
(* A translated track of an episode over the phrase cache and the chunk    *)
(* files: download.py 1012-1051, global_phrase_cache.py 45-62,             *)
(* codex_batch.py 600-680                                                  *)

MaxTrackCues == 3
MaxTrackRuns == 2

\* The cue ids of an episode, enumerate(es_cues).
TrackCueIds == [k \in 1..MaxTrackCues |-> k - 1]

\* cue_tasks, download.py 1012-1017: the cues whose text is not blank, in
\* order, under their index in the cue list.
cue_tasks(blank) == SelectSeq(TrackCueIds, LAMBDA i : i \notin blank)

\* GlobalPhraseCache.split_for_track, global_phrase_cache.py 45-62, over a
\* phrase cache that holds the texts of the cues `known`.
split_for_track(cues, known) ==
    [hits |-> [i \in SeqToSet(cues) \cap known |-> "gc"],
     misses |-> SelectSeq(cues, LAMBDA i : i \notin known)]

\* The cues of the chunks of chunk_cues, codex_batch.py 325-327.
ChunkParts(cues, chunk_size) ==
    [k \in 1..NumChunks(Len(cues), chunk_size) |->
        SubSeq(cues, (k - 1) * chunk_size + 1, Min(k * chunk_size, Len(cues)))]

\* The answers of the backend to the cues of a chunk, as written to its
\* output file.
Answered(part) == [i \in SeqToSet(part) |-> "mt"]

\* merged.update(_parse_jsonl_map(ch.out_jsonl)) for the chunks in order,
\* codex_batch.py 636-640.
RECURSIVE MergeFiles(_, _, _)
MergeFiles(files, k, acc) ==
    IF k = 0 THEN acc ELSE Update(MergeFiles(files, k - 1, acc), files[k])

\* A run over one track of one episode.
\*   blank     the cues with blank text
\*   known     the cues whose text the phrase cache holds in this run
\*   files     chunk number -> what the chunk output file of that number
\*             holds (same base path, chunk size and tag in every run)
\*   hits, misses   what split_for_track returned
\*   sent      the cues passed to the translation call
\*   merged    the local `merged` of _translate_es_chunked
\*   ru_map    the map the subtitle file is built from
\*   at        "split", "main", "gap", "merge", "done", "raised"
TrackRuns ==
    [fn : {"_task_ru"}, at : {"split"}, run : {1},
     chunk_size : {1, 2}, blank : SUBSET (0..(MaxTrackCues - 1)),
     known : SUBSET (0..(MaxTrackCues - 1)),
     files : {<<>>}, hits : {<<>>}, misses : {<<>>}, sent : {<<>>},
     merged : {<<>>}, ru_map : {<<>>}]

InitTrack ==
    /\ env = [cls |-> "track"]
    /\ fs = <<>>
    /\ pc = "idle"
    /\ call = NoCall
    /\ stage = NoStage
    /\ loop = NoLoop
    /\ merged = EmptyMap
    /\ result = NoResult
    /\ obs = NoObs
    /\ ep = NoEpisode
    /\ disk = <<>>
    /\ season = NoSeason
    /\ calc \in TrackRuns

\* download.py 1021-1024: the split, `ru_map = dict(ru_cached)` and the test
\* `if ru_missing`.
TrackSplit ==
    /\ calc.fn = "_task_ru" /\ calc.at = "split"
    /\ LET s == split_for_track(cue_tasks(calc.blank), calc.known)
       IN  calc' = [calc EXCEPT !.hits = s.hits, !.misses = s.misses,
                                !.ru_map = s.hits, !.merged = <<>>,
                                !.sent = s.misses,
                                !.at = IF s.misses = <<>> THEN "merge" ELSE "main"]
    /\ UNCHANGED cvars

\* The main pass of _translate_es_chunked with resume=True, codex_batch.py
\* 620-643: the chunks without an output file are run, each writes its file
\* when the backend answers, a chunk that fails raises; then the files of
\* all the chunks are merged.
TrackMain ==
    /\ calc.fn = "_task_ru" /\ calc.at = "main"
    /\ LET parts == ChunkParts(calc.sent, calc.chunk_size)
           pending == {k \in 1..Len(parts) : k \notin DOMAIN calc.files}
       IN  \E ok \in SUBSET pending :
              LET files == [k \in DOMAIN calc.files \cup ok |->
                               IF k \in ok THEN Answered(parts[k]) ELSE calc.files[k]]
                  m == MergeFiles(files, Len(parts), <<>>)
              IN  calc' = IF ok # pending
                          THEN [calc EXCEPT !.files = files, !.at = "raised"]
                          ELSE [calc EXCEPT !.files = files, !.merged = m,
                                   !.at = IF SeqToSet(calc.sent) \subseteq Keys(m)
                                          THEN "merge" ELSE "gap"]
    /\ UNCHANGED cvars

\* The gap-filling rounds, codex_batch.py 644-680: the backend answers for
\* the ids still missing, or the call raises.
TrackGap ==
    /\ calc.fn = "_task_ru" /\ calc.at = "gap"
    /\ \/ calc' = [calc EXCEPT !.at = "raised"]
       \/ calc' = [calc EXCEPT !.at = "merge",
                     !.merged = Update(@, [i \in SeqToSet(calc.sent) \ Keys(calc.merged) |-> "mt"])]
    /\ UNCHANGED cvars

\* download.py 1025-1049: ru_map.update(...) with what the call returned,
\* and the subtitle file built from ru_map.
TrackMerge ==
    /\ calc.fn = "_task_ru" /\ calc.at = "merge"
    /\ calc' = [calc EXCEPT !.ru_map = Update(calc.hits, calc.merged), !.at = "done"]
    /\ UNCHANGED cvars

\* The episode is run again after a run that failed: the chunk files are
\* where the failed run left them, and the phrase cache, a file loaded at
\* the start of every run (download.py 421), may hold other phrases.
TrackRerun ==
    /\ calc.fn = "_task_ru" /\ calc.at = "raised" /\ calc.run < MaxTrackRuns
    /\ \E known \in SUBSET (0..(MaxTrackCues - 1)) :
          calc' = [calc EXCEPT !.run = @ + 1, !.known = known, !.at = "split"]
    /\ UNCHANGED cvars

NextTrack == TrackSplit \/ TrackMain \/ TrackGap \/ TrackMerge \/ TrackRerun

SpecTrack == InitTrack /\ [][NextTrack]_vars

-----------------------------------------------------------------------------
\* The phrase cache and the scheduler

\* C32: the cues passed to the translation call are the misses of the phrase
\* cache: hits and misses partition the cue tasks and the misses keep their
\* order; and in the map the subtitle file is built from, every hit has its
\* cached value and every miss the backend's value.
C32_Tasks == cue_tasks(calc.blank)
C32_Split ==
    /\ Keys(calc.hits) \cup SeqToSet(calc.sent) = SeqToSet(C32_Tasks)
    /\ Keys(calc.hits) \cap SeqToSet(calc.sent) = {}
    /\ calc.sent = SelectSeq(C32_Tasks, LAMBDA i : i \notin Keys(calc.hits))
C32_Merged ==
    /\ Keys(calc.ru_map) = SeqToSet(C32_Tasks)
    /\ \A i \in Keys(calc.hits) : calc.ru_map[i] = "gc"
    /\ \A i \in SeqToSet(calc.sent) : calc.ru_map[i] = "mt"
C32_HitsKeptMissesTranslated ==
    calc.fn = "_task_ru" =>
       /\ calc.at \in {"main", "gap", "merge", "done"} => C32_Split
       /\ calc.at = "done" => C32_Merged

-----------------------------------------------------------------------------
\* The duration guard before translation

\* C33: an episode that went through FETCH and stands at TRANSLATE or MUX
\* with a non-empty ES subtitle file has a video whose probed duration is at
\* least 70% of the end of that file's timeline, unless the timeline is
\* empty.
C33_GuardedBeforeTranslate ==
    (/\ env.cls = "episode" /\ ep.status = "running" /\ ep.nres > 0
     /\ ep.pc \in {"tr", "tr_join", "mux"}
     /\ _is_nonempty_file(disk, srt_es)
     /\ _srt_duration_seconds(disk, srt_es) > 0)
    => /\ is_valid_mp4(disk, mp4_path)
       /\ LongEnough(disk, srt_es)

-----------------------------------------------------------------------------
(* The base name of an episode: download.py 40-43 and 484-560 *)

MaxTitle == 2
SlugMax == 80

\* Titles: texts over a lower-case letter, an upper-case letter and a
\* blank; the empty one stands for a title that is None or "".  Asset ids are
\* digits.
TitleChars == {"a", "B", SP}
Titles == UNION {[1..k -> TitleChars] : k \in 0..MaxTitle}
AssetId == <<"7">>

LowerChar(c) == IF c = "B" THEN "b" ELSE c
SlugAlnum(c) == c \in {"a", "b"} \/ IsDigit(c)

\* re.sub(r"[^a-z0-9]+", "_", s): every run of other characters becomes one
\* underscore.
RECURSIVE SlugRuns(_, _)
SlugRuns(s, acc) ==
    IF s = <<>> THEN acc
    ELSE IF SlugAlnum(Head(s)) THEN SlugRuns(Tail(s), Append(acc, Head(s)))
    ELSE IF acc # <<>> /\ acc[Len(acc)] = "_" THEN SlugRuns(Tail(s), acc)
    ELSE SlugRuns(Tail(s), Append(acc, "_"))

RECURSIVE StripUnderscores(_)
StripUnderscores(s) ==
    IF s # <<>> /\ Head(s) = "_" THEN StripUnderscores(Tail(s))
    ELSE IF s # <<>> /\ s[Len(s)] = "_" THEN StripUnderscores(SubSeq(s, 1, Len(s) - 1))
    ELSE s

\* _slug_title, download.py 40-43.
_slug_title(s) ==
    LET low == [k \in 1..Len(s) |-> LowerChar(s[k])]
        t == StripUnderscores(SlugRuns(low, <<>>))
    IN  IF t = <<>> THEN <<"e", "p", "i", "s", "o", "d", "e">>
        ELSE SubSeq(t, 1, Min(SlugMax, Len(t)))

\* `x or y` over titles.
OrElse(x, y) == IF x # <<>> THEN x ELSE y

\* download.py 486-489: the name before the Resolver is asked.
base_guess(a_title) == _slug_title(OrElse(a_title, AssetId))

\* download.py 539-540: the name after the Resolver has answered.
base_resolved(a_title, resolved_title) ==
    _slug_title(OrElse(a_title, OrElse(resolved_title, AssetId)))

\* The runs of one episode.
\*   a_title, resolved_title   the title of the catalogue entry and the one
\*             the Resolver returns
\*   recorded  the base name given to telemetry.start_episode in the first
\*             run (empty before it)
\*   lookups   the base names under which files were looked for before the
\*             Resolver was asked
\*   written   the base names under which files were written
\*   inputs, mkvs   the base names under which the mux inputs and the final
\*             container are on disk
\*   base      the local `base`
\*   at        "start", "resolve", "fetch", "mux", "done", "failed"
BaseRuns ==
    [fn : {"_process_one"}, at : {"start"}, run : {1},
     a_title : Titles, resolved_title : Titles,
     recorded : {<<>>}, base : {<<>>},
     lookups : {{}}, written : {{}}, inputs : {{}}, mkvs : {{}}]

InitBase ==
    /\ env = [cls |-> "base"]
    /\ fs = <<>>
    /\ pc = "idle"
    /\ call = NoCall
    /\ stage = NoStage
    /\ loop = NoLoop
    /\ merged = EmptyMap
    /\ result = NoResult
    /\ obs = NoObs
    /\ ep = NoEpisode
    /\ disk = <<>>
    /\ season = NoSeason
    /\ calc \in BaseRuns

\* download.py 486-529: the name is derived and recorded, the final
\* container and then the mux inputs are looked for under it.
BaseStart ==
    /\ calc.fn = "_process_one" /\ calc.at = "start"
    /\ LET b == base_guess(calc.a_title)
           c == [calc EXCEPT !.base = b, !.lookups = @ \cup {b},
                             !.recorded = IF @ = <<>> THEN b ELSE @]
       IN  calc' = IF b \in calc.mkvs THEN [c EXCEPT !.at = "done"]
                   ELSE IF b \in calc.inputs THEN [c EXCEPT !.at = "mux"]
                   ELSE [c EXCEPT !.at = "resolve"]
    /\ UNCHANGED cvars

\* download.py 535-555: the Resolver answers (or raises), the name is
\* derived again and the final container looked for under it.
BaseResolve ==
    /\ calc.fn = "_process_one" /\ calc.at = "resolve"
    /\ \/ calc' = [calc EXCEPT !.at = "failed"]
       \/ LET b == base_resolved(calc.a_title, calc.resolved_title)
          IN  calc' = [calc EXCEPT !.base = b,
                         !.at = IF b \in calc.mkvs THEN "done" ELSE "fetch"]
    /\ UNCHANGED cvars

\* FETCH and TRANSLATE: the video, the subtitle files and the translation
\* caches are written under `base` (download.py 545-546, 597, 949-1057), or
\* the episode fails before they all are.
BaseFetch ==
    /\ calc.fn = "_process_one" /\ calc.at = "fetch"
    /\ \/ calc' = [calc EXCEPT !.at = "failed", !.written = @ \cup {calc.base}]
       \/ calc' = [calc EXCEPT !.at = "mux", !.written = @ \cup {calc.base},
                               !.inputs = @ \cup {calc.base}]
    /\ UNCHANGED cvars

\* MUX: the final container is written under `base` (download.py 521-529,
\* 1253-1261), or the Muxer fails.
BaseMux ==
    /\ calc.fn = "_process_one" /\ calc.at = "mux"
    /\ \/ calc' = [calc EXCEPT !.at = "failed"]
       \/ calc' = [calc EXCEPT !.at = "done", !.written = @ \cup {calc.base},
                               !.mkvs = @ \cup {calc.base}]
    /\ UNCHANGED cvars

\* The same episode is processed again.
BaseRerun ==
    /\ calc.fn = "_process_one" /\ calc.at \in {"done", "failed"} /\ calc.run < MaxRuns
    /\ calc' = [calc EXCEPT !.at = "start", !.run = @ + 1, !.base = <<>>]
    /\ UNCHANGED cvars

NextBase == BaseStart \/ BaseResolve \/ BaseFetch \/ BaseMux \/ BaseRerun

SpecBase == InitBase /\ [][NextBase]_vars

-----------------------------------------------------------------------------
\* One base name per episode

\* C34: the base name recorded at the start of the episode and used for the
\* lookups of PRECHECK is the base name of every artifact written in that
\* run and in every later run of the episode.
C34_OneBase ==
    (calc.fn = "_process_one" /\ calc.recorded # <<>>) =>
       \A b \in calc.lookups \cup calc.written : b = calc.recorded

-----------------------------------------------------------------------------
(* Where cues are made: subs/srt_parse.py 16-44, subs/align_whisperx.py    *)
(* 53-124, download.py 1045-1048                                           *)

_ALIGN_MAX_ADJUST_MS == 5000

\* The timestamps of the timing lines of a subtitle file, in milliseconds.
CueTimes == {0, 1000, 3000, 9000}

\* A subtitle file as the provider, the transcriber or an earlier run left
\* it: one cue with any two timestamps on its timing line, alone or
\* followed by a second cue.
CueFiles ==
    {cues_to_srt(<<c>> \o rest) :
        c \in [start_ms : CueTimes, end_ms : CueTimes, text : {<<"a">>}],
        rest \in {<<>>, <<[start_ms |-> 1000, end_ms |-> 3000, text |-> <<"a">>]>>}}

\* The aligned segments: an id or none (-1), and the first start and last
\* end of the segment's words in milliseconds, or none (-1),
\* _extract_word_times, align_whisperx.py 53-61.
AlignedSegments ==
    LET Segs == [id : {0 - 1, 0, 1}, st : {0 - 1, 0, 1000}, en : {0 - 1, 1000, 9000}]
    IN  {<<s>> : s \in Segs} \cup {<<s, t>> : s \in Segs, t \in Segs}

SegTimed(seg) == seg.st # 0 - 1 /\ seg.en # 0 - 1 /\ seg.en > seg.st

\* by_id, align_whisperx.py 66-80.
by_id(segs) ==
    LET good == {k \in 1..Len(segs) : segs[k].id # 0 - 1 /\ SegTimed(segs[k])}
        ids == {segs[k].id : k \in good}
        of(i) == {k \in good : segs[k].id = i}
    IN  [i \in ids |->
            [st |-> CHOOSE t \in {segs[k].st : k \in of(i)} :
                       \A k \in of(i) : t <= segs[k].st,
             en |-> CHOOSE t \in {segs[k].en : k \in of(i)} :
                       \A k \in of(i) : t >= segs[k].en]]

Abs(x) == IF x < 0 THEN 0 - x ELSE x

\* The cue made of a cue and the times found for it, align_whisperx.py
\* 91-100 and 110-119.
Retimed(cue, st, en) ==
    LET start_ms == Max(0, st)
        end_ms == Max(start_ms + 1, en)
    IN  IF Abs(start_ms - cue.start_ms) > _ALIGN_MAX_ADJUST_MS
           \/ Abs(end_ms - cue.end_ms) > _ALIGN_MAX_ADJUST_MS
        THEN cue
        ELSE [start_ms |-> start_ms, end_ms |-> end_ms, text |-> cue.text]

\* retime_cues_from_segments, align_whisperx.py 64-124.
retime_cues_from_segments(cues, segs) ==
    LET ids == by_id(segs)
    IN  IF DOMAIN ids # {}
        THEN [k \in 1..Len(cues) |->
                 IF (k - 1) \notin DOMAIN ids THEN cues[k]
                 ELSE Retimed(cues[k], ids[k - 1].st, ids[k - 1].en)]
        ELSE [k \in 1..Min(Len(cues), Len(segs)) |->
                 IF ~SegTimed(segs[k]) THEN cues[k]
                 ELSE Retimed(cues[k], segs[k].st, segs[k].en)]

\* The cues of a translated track, download.py 1045-1048.
TranslatedCues(cues) ==
    [k \in 1..Len(cues) |->
        [start_ms |-> cues[k].start_ms, end_ms |-> cues[k].end_ms, text |-> <<"r">>]]

\* A subtitle file is parsed, and the cues are retimed or a translated
\* track is derived from them.
InitCue ==
    /\ env = [cls |-> "cue"]
    /\ fs = <<>>
    /\ pc = "idle"
    /\ call = NoCall
    /\ stage = NoStage
    /\ loop = NoLoop
    /\ merged = EmptyMap
    /\ result = NoResult
    /\ obs = NoObs
    /\ ep = NoEpisode
    /\ disk = <<>>
    /\ season = NoSeason
    /\ calc \in {[fn |-> "parse_srt", at |-> "file", srt |-> f,
                  cues |-> <<>>, made |-> <<>>] : f \in CueFiles}

CueParse ==
    /\ calc.fn = "parse_srt" /\ calc.at = "file"
    /\ calc' = [calc EXCEPT !.at = "parsed", !.cues = parse_srt(calc.srt),
                            !.made = parse_srt(calc.srt)]
    /\ UNCHANGED cvars

CueRetime ==
    /\ calc.fn = "parse_srt" /\ calc.at = "parsed"
    /\ \E segs \in AlignedSegments :
          calc' = [calc EXCEPT !.at = "retimed",
                               !.made = retime_cues_from_segments(calc.cues, segs)]
    /\ UNCHANGED cvars

CueTranslate ==
    /\ calc.fn = "parse_srt" /\ calc.at = "parsed"
    /\ calc' = [calc EXCEPT !.at = "translated", !.made = TranslatedCues(calc.cues)]
    /\ UNCHANGED cvars

NextCue == CueParse \/ CueRetime \/ CueTranslate

SpecCue == InitCue /\ [][NextCue]_vars

-----------------------------------------------------------------------------
\* The cue invariant

\* C35: every cue made by parsing or retiming ends after it starts, and the
\* cues of a translated track have the start and the end of the source cue
\* of the same index.
C35_Ordered(cues) == \A k \in 1..Len(cues) : cues[k].end_ms > cues[k].start_ms
C35_CuesWellFormed ==
    calc.fn = "parse_srt" =>
       /\ calc.at \in {"parsed", "retimed"} => C35_Ordered(calc.made)
       /\ calc.at = "translated" =>
             /\ Len(calc.made) = Len(calc.cues)
             /\ \A k \in 1..Len(calc.cues) :
                   /\ calc.made[k].start_ms = calc.cues[k].start_ms
                   /\ calc.made[k].end_ms = calc.cues[k].end_ms

-----------------------------------------------------------------------------
\* The Transcriber and the video downloads of an episode

\* C36: the Transcriber runs only while no video task of the episode is in
\* flight, and a video task is started only when none is in flight, whatever
\* the order in which the pool's task and the main thread take their steps.
C36_VideoInFlight == ep.video \in {"check", "download"}
C36_AsrAlone ==
    (env.cls = "episode" /\ ep.status = "running" /\ ep.pc \in {"asr_run", "asr_rerun"})
       => ~C36_VideoInFlight
C36_StartStep ==
    (/\ ep.status = "running" /\ ep'.status = "running" /\ ep'.video = "check"
     /\ (ep.video # "check" \/ ep'.nforce # ep.nforce \/ ep'.nres # ep.nres))
    => ~C36_VideoInFlight
C36_AsrAfterVideo == []C36_AsrAlone /\ [][C36_StartStep]_vars

\* The Transcriber is about to run a second time, after the forced
\* re-download it asked for has ended.
C36_Witness ==
    /\ env.cls = "episode" /\ ep.status = "running" /\ ep.pc = "asr_rerun"
    /\ ep.nforce = 1 /\ ep.ndl >= 1 /\ ep.video = "idle"

\* The video is being downloaded in the pool while the main thread builds
\* the ES subtitles.
C36_PoolDownload ==
    /\ env.cls = "episode" /\ ep.status = "running" /\ ep.pc = "es_srt"
    /\ ep.video = "download"

-----------------------------------------------------------------------------
\* The keys of the returned map

\* C37: the map a call returns has the requested ids as its keys and no
\* other, whatever the files of earlier calls hold.
C37_ExactlyRequested ==
    (env.cls \in {"single", "multi", "scenario"} /\ pc = "done" /\ result.status = "ok")
       => Keys(result.map) = Want

-----------------------------------------------------------------------------
\* A call of translate_es repeated with the same arguments.

\* The call before this one had the same arguments and raised.
C38_RepeatedAfterFailure ==
    /\ obs.prev.status = "raised"
    /\ obs.prev.n = call.n
    /\ obs.prev.chunk_size = call.chunk_size
    /\ obs.prev.io_tag = call.io_tag

\* The ids the call found persisted when it started: those of the chunk
\* output files, or those of a single-request cache file of the current
\* format.
C38_PersistedAtStart ==
    IF env.mode = "nochunk" /\ ~obs.start.compatible THEN {} ELSE obs.start.have

\* C38: a call that repeats a call that returned invokes no backend and
\* returns the same map, in both modes and whether or not the first call
\* needed gap-filling; a call that repeats a call that failed sends the
\* backend none of the ids it found persisted when it started.
C38_RepeatServed ==
    (env.cls \in {"single", "multi", "scenario"} /\ obs.calls >= 2 /\ env.resume) =>
       /\ RepeatedCall =>
             /\ obs.ninv = 0 /\ obs.sent = {}
             /\ pc = "done" => (result.status = "ok" /\ result.map = obs.prev.map)
       /\ C38_RepeatedAfterFailure => obs.sent \cap C38_PersistedAtStart = {}

-----------------------------------------------------------------------------
\* Single-request mode: no escalation.

\* C40: in single-request mode no wave runs on the fallback model, no wave
\* is repeated after a rate limit, the chunks of a gap-filling round run with
\* one worker and are each invoked once, on the primary model; and a call
\* whose main request failed has invoked the backend exactly once.
C40_NoEscalation ==
    (env.cls = "single" /\ env.mode = "nochunk") =>
       /\ loop.fallback_model = "" /\ ~loop.fallback_done
       /\ loop.workers <= 1 /\ loop.waves <= 1
       /\ pc = "loop" => RunModel(loop) = PrimaryModel
       /\ \A k \in DOMAIN obs.cnt : obs.cnt[k].f = 0 /\ obs.cnt[k].p <= 1
       /\ (pc = "done" /\ result.status = "raised" /\ obs.gaps = <<>>) => obs.ninv = 1

\* A gap-filling chunk has failed on a rate limit, with a fallback model and
\* four workers configured, and the call has raised.
C40_Witness ==
    /\ env.cls = "single" /\ env.mode = "nochunk"
    /\ env.fallback_model = "mini" /\ env.max_workers = 4
    /\ pc = "done" /\ result.status = "raised" /\ result.err = "rate limited"
    /\ Len(obs.gaps) >= 1 /\ obs.ninv >= 2

\* The main request has failed on a rate limit.
C40_MainRequestFailed ==
    /\ env.cls = "single" /\ env.mode = "nochunk"
    /\ pc = "done" /\ result.status = "raised" /\ result.err = "rate limited"
    /\ obs.gaps = <<>>

-----------------------------------------------------------------------------
(* The list handed to the Muxer: download.py 253-341, 496-535, 942-1261 *)

\* The subtitle files an episode can find on disk, by kind: the three files
\* of the RU family stand or fall together here.
MuxKinds == {"es", "en", "ru", "es_asr", "en_asr", "ru_asr"}

\* The inputs of one episode.
\*   force_asr, parallel, with_ru, translate_en, asr_if_missing
\*             the parameters of download_selector
\*   es_vtt, en_vtt   resolved.subtitles_es_vtt / subtitles_en_vtt are set
\*   mp4_ok    is_valid_mp4(mp4_path) and _mp4_matches_es_srt(mp4_path, srt_es)
\*             at line 516
\*   have      the kinds of subtitle file that are on disk and not empty
MuxCfgs ==
    [force_asr : BOOLEAN, parallel : BOOLEAN, with_ru : BOOLEAN,
     translate_en : BOOLEAN, asr_if_missing : BOOLEAN,
     es_vtt : BOOLEAN, en_vtt : BOOLEAN, mp4_ok : BOOLEAN, have : SUBSET MuxKinds]

\* The title of an ASR track on the full path: f"whisperx-{asr_model}" (or
\* the last component of asr_mlx_model), lines 702-705 and 783-787.
asr_model_name == "whisperx-large-v3"

\* The tracks as (path, language, title); "MT" stands for
\* f"{primary_model} MT".
RuTracks ==
    << <<srt_ru, "rus", "MT">>, <<srt_bi, "spa", "ES+RU refs">>,
       <<srt_bi_full, "spa", "ES+RU">> >>
RuAsrTracks ==
    << <<srt_ru_asr, "rus", "MT/ASR">>, <<srt_bi_asr, "spa", "ES+RU refs/ASR">>,
       <<srt_bi_full_asr, "spa", "ES+RU/ASR">> >>

NoLocal == [ok |-> FALSE, subs |-> <<>>, default |-> ""]

\* _collect_local_subs_for_mux as called at lines 508-515 (es_model_name left
\* at its default "RTVE"): None, or the list and the default title.
local_result(c) ==
    LET has(k) == k \in c.have
    IN  IF c.force_asr
        THEN IF ~(has("es_asr") /\ has("en_asr") /\ has("ru_asr"))
             THEN NoLocal
             ELSE [ok |-> TRUE,
                   subs |-> (IF has("es") THEN << <<srt_es, "spa", "RTVE">> >> ELSE <<>>)
                            \o (IF has("en") THEN << <<srt_en, "eng", "RTVE">> >> ELSE <<>>)
                            \o (IF has("ru") THEN RuTracks ELSE <<>>)
                            \o << <<srt_es_asr, "spa", "ASR">>,
                                  <<srt_en_asr, "eng", "MT/ASR">> >>
                            \o RuAsrTracks,
                   default |-> "ES+RU refs/ASR"]
        ELSE IF ~has("es") THEN NoLocal
        ELSE IF c.translate_en /\ ~has("en") THEN NoLocal
        ELSE IF c.with_ru /\ ~has("ru") THEN NoLocal
        ELSE [ok |-> TRUE,
              subs |-> << <<srt_es, "spa", "RTVE">> >>
                       \o (IF c.translate_en THEN << <<srt_en, "eng", "MT">> >> ELSE <<>>)
                       \o (IF c.with_ru THEN RuTracks ELSE <<>>),
              default |-> "ES+RU refs"]

\* What a task can come to: the tracks it returns, or an exception.  A file
\* that is on disk is a cache hit; building one (a download, a Transcriber
\* run, a translation) can fail.
Done(tracks) == [ok |-> TRUE, tracks |-> tracks]
Failed == [ok |-> FALSE, tracks |-> <<>>]
NotRun == [ok |-> TRUE, tracks |-> <<>>]

\* _task_es, lines 625-706.
_task_es(c) ==
    IF c.es_vtt
    THEN {Done(<< <<srt_es, "spa", "RTVE">> >>), Failed}
    ELSE IF ~c.asr_if_missing THEN {Failed}
    ELSE {Done(<< <<srt_es, "spa", asr_model_name>> >>)}
         \cup (IF "es" \in c.have THEN {} ELSE {Failed})

\* _task_asr, lines 727-787.
_task_asr(c) ==
    {Done(<< <<srt_es_asr, "spa", asr_model_name>> >>)}
    \cup (IF "es_asr" \in c.have THEN {} ELSE {Failed})

\* _task_en, lines 942-999.
_task_en(c) ==
    IF c.en_vtt THEN {Done(<< <<srt_en, "eng", "RTVE">> >>), Failed}
    ELSE IF ~c.translate_en THEN {Done(<<>>)}
    ELSE {Done(<< <<srt_en, "eng", "MT">> >>)}
         \cup (IF "en" \in c.have THEN {} ELSE {Failed})

\* _task_ru, lines 1001-1119.
_task_ru(c) ==
    IF ~c.with_ru THEN {Done(<<>>)}
    ELSE {Done(RuTracks)} \cup (IF "ru" \in c.have THEN {} ELSE {Failed})

\* _task_en_asr, lines 789-826.
_task_en_asr(c) ==
    {Done(<< <<srt_en_asr, "eng", "MT/ASR">> >>)}
    \cup (IF "en_asr" \in c.have THEN {} ELSE {Failed})

\* _task_ru_asr, lines 828-937.
_task_ru_asr(c) ==
    {Done(RuAsrTracks)} \cup (IF "ru_asr" \in c.have THEN {} ELSE {Failed})

\* One episode from the local precheck to the call of mux_mkv.
\*   at      where _process_one is
\*   local   local_result of line 508
\*   path    "short" when the precheck went straight to the Muxer
\*   subs, default   the list `subs` and default_subtitle_title
\*   en, ru  the two translation tasks: "idle", "running", "done"
\*   first   the translation task that completed first
InitMuxList ==
    /\ env = [cls |-> "muxlist"]
    /\ fs = <<>>
    /\ pc = "idle"
    /\ call = NoCall
    /\ stage = NoStage
    /\ loop = NoLoop
    /\ merged = EmptyMap
    /\ result = NoResult
    /\ obs = NoObs
    /\ ep = NoEpisode
    /\ disk = <<>>
    /\ season = NoSeason
    /\ calc \in {[fn |-> "muxlist", cfg |-> c, at |-> "precheck", local |-> NoLocal,
                  path |-> "none", subs |-> <<>>, default |-> "",
                  en |-> "idle", ru |-> "idle", en_res |-> NotRun, ru_res |-> NotRun,
                  first |-> "none"] : c \in MuxCfgs}

\* Lines 508-535: the local precheck, and the Muxer at once when the list is
\* there and the cached video passes.
MuxCollect ==
    /\ calc.fn = "muxlist" /\ calc.at = "precheck"
    /\ LET r == local_result(calc.cfg)
       IN  calc' = IF r.ok /\ calc.cfg.mp4_ok
                   THEN [calc EXCEPT !.local = r, !.at = "mux", !.path = "short",
                                     !.subs = r.subs, !.default = r.default]
                   ELSE [calc EXCEPT !.local = r, !.at = "video+es", !.path = "full",
                                     !.default = "ES+RU refs"]
    /\ UNCHANGED cvars

\* Normal mode up to the translations, lines 1195-1241: the video, _task_es
\* and the append of the ES track.
MuxVideoEs ==
    /\ calc.fn = "muxlist" /\ calc.at = "video+es" /\ ~calc.cfg.force_asr
    /\ \E r \in _task_es(calc.cfg) :
          calc' = IF r.ok
                  THEN [calc EXCEPT !.at = "translations", !.subs = r.tracks]
                  ELSE [calc EXCEPT !.at = "failed"]
    /\ UNCHANGED cvars

\* Force-ASR mode up to the translations, lines 1124-1171: the provider's ES
\* and EN tracks, the cached translations of them, and the ASR track.
MuxForced ==
    /\ calc.fn = "muxlist" /\ calc.at = "video+es" /\ calc.cfg.force_asr
    /\ LET c == calc.cfg IN
       \E es \in (IF c.es_vtt THEN _task_es(c) ELSE {Done(<<>>)}),
          en_ok \in (IF c.en_vtt THEN BOOLEAN ELSE {TRUE}),
          asr \in _task_asr(c) :
          calc' = IF es.ok /\ en_ok /\ asr.ok
                  THEN [calc EXCEPT
                          !.at = "translations",
                          !.subs = es.tracks
                                   \o (IF c.en_vtt THEN << <<srt_en, "eng", "RTVE">> >>
                                       ELSE IF "en" \in c.have
                                       THEN << <<srt_en, "eng", "MT">> >> ELSE <<>>)
                                   \o (IF "ru" \in c.have THEN RuTracks ELSE <<>>)
                                   \o asr.tracks,
                          !.default = "ES+RU refs/ASR"]
                  ELSE [calc EXCEPT !.at = "failed"]
    /\ UNCHANGED cvars

\* The translation tasks start: both in a pool of two when parallel is set,
\* the EN task alone otherwise.
MuxSubmit ==
    /\ calc.fn = "muxlist" /\ calc.at = "translations"
    /\ calc' = [calc EXCEPT !.at = "join_en", !.en = "running",
                            !.ru = IF calc.cfg.parallel THEN "running" ELSE "idle"]
    /\ UNCHANGED cvars

MuxEnCompletes ==
    /\ calc.fn = "muxlist" /\ calc.en = "running"
    /\ \E r \in (IF calc.cfg.force_asr THEN _task_en_asr(calc.cfg) ELSE _task_en(calc.cfg)) :
          calc' = [calc EXCEPT !.en = "done", !.en_res = r,
                               !.first = IF calc.first = "none" THEN "en" ELSE calc.first]
    /\ UNCHANGED cvars

MuxRuCompletes ==
    /\ calc.fn = "muxlist" /\ calc.ru = "running"
    /\ \E r \in (IF calc.cfg.force_asr THEN _task_ru_asr(calc.cfg) ELSE _task_ru(calc.cfg)) :
          calc' = [calc EXCEPT !.ru = "done", !.ru_res = r,
                               !.first = IF calc.first = "none" THEN "ru" ELSE calc.first]
    /\ UNCHANGED cvars

\* fut_en.result(): the EN track is appended, or its failure logged; without
\* a pool the RU task is called next.
MuxJoinEn ==
    /\ calc.fn = "muxlist" /\ calc.at = "join_en" /\ calc.en = "done"
    /\ calc' = [calc EXCEPT !.at = "join_ru",
                            !.subs = calc.subs \o calc.en_res.tracks,
                            !.ru = IF calc.cfg.parallel THEN calc.ru ELSE "running"]
    /\ UNCHANGED cvars

\* fut_ru.result(): the RU tracks are appended, or the episode fails.
MuxJoinRu ==
    /\ calc.fn = "muxlist" /\ calc.at = "join_ru" /\ calc.ru = "done"
    /\ calc' = IF calc.ru_res.ok
               THEN [calc EXCEPT !.at = "mux", !.subs = calc.subs \o calc.ru_res.tracks]
               ELSE [calc EXCEPT !.at = "failed"]
    /\ UNCHANGED cvars

NextMuxList ==
    \/ MuxCollect \/ MuxVideoEs \/ MuxForced \/ MuxSubmit
    \/ MuxEnCompletes \/ MuxRuCompletes \/ MuxJoinEn \/ MuxJoinRu

SpecMuxList == InitMuxList /\ [][NextMuxList]_vars

-----------------------------------------------------------------------------
\* The shortcut's list against the full path's.

\* In normal mode the list is ES, then EN if there is one, then the RU
\* family.
EsEnRu(subs) ==
    /\ Len(subs) >= 1 /\ subs[1][1] = srt_es
    /\ \A i \in 1..Len(subs) :
          /\ subs[i][1] = srt_en => i = 2
          /\ subs[i][1] = srt_ru => i = Len(subs) - 2
          /\ subs[i][1] = srt_bi => i = Len(subs) - 1
          /\ subs[i][1] = srt_bi_full => i = Len(subs)
          /\ subs[i][1] \in {srt_es, srt_en, srt_ru, srt_bi, srt_bi_full}

\* C39: when the full path reaches the Muxer with a local result that the
\* shortcut would have muxed (the same files, the same configuration), its
\* list (paths, languages, titles, order) and its default title are those
\* of the local result; and in normal mode the full path's list is ES, EN, RU
\* family whichever translation task completed first.
C39_ShortcutAsFull ==
    (calc.fn = "muxlist" /\ calc.at = "mux" /\ calc.path = "full") =>
       /\ calc.local.ok =>
             /\ calc.subs = calc.local.subs
             /\ calc.default = calc.local.default
       /\ ~calc.cfg.force_asr => EsEnRu(calc.subs)

=============================================================================
